---- MODULE Spec2Model ----
(***************************************************************************)
(* Photo-to-profile extractor of the 2-D find illustrator                   *)
(* (src/src/utils/photoToProfile.ts, the later extractProfileFromImage).    *)
(*                                                                          *)
(* Arithmetic is exact: a gray image is a function 0..w*h-1 -> numerator    *)
(* over one common denominator gden; a profile coordinate is a record       *)
(* [n, d] (the rational n/d, d = 0 standing for NaN).  IEEE-754 rounding    *)
(* of the doubles is not modelled.                                          *)
(* A JavaScript number given as an option is a record [k, v2]: k = "undef"  *)
(* (option absent), "nan", or "num" with v2 twice the value (so halves are  *)
(* representable: v2 = 17 is 8.5).                                          *)
(***************************************************************************)
EXTENDS Integers, Sequences, FiniteSets, TLC

\* ------------------------------------------------------------------------
\* Bounds of the model
\* ------------------------------------------------------------------------
MaxW == 8
MaxH == 12
MaxCalls == 3
MaskW == 4
MaxCount == 3
MaxIds == 23

\* ------------------------------------------------------------------------
\* Program constants
\* ------------------------------------------------------------------------
MAX_WIDTH == 500
MAX_RECENT == 20
MAX_PIXELS == 400000
DEFAULT_TARGET_POINTS == 18

\* ------------------------------------------------------------------------
\* Arithmetic helpers
\* ------------------------------------------------------------------------
Min(a, b) == IF a < b THEN a ELSE b
Max(a, b) == IF a > b THEN a ELSE b
Abs(a) == IF a < 0 THEN -a ELSE a

RECURSIVE Gcd(_, _)
Gcd(a, b) == IF b = 0 THEN Abs(a) ELSE Gcd(b, a % b)

\* A loop for (i = lo; i < hi; i++) st = Op(st, i), evaluated by halving the
\* range so that the evaluation stack stays shallow; the iterations are
\* applied in order, the second half starting from the value the first half
\* has produced.
RECURSIVE FoldRange(_, _, _, _)
FoldRange(Op(_, _), lo, hi, st) ==
  IF hi <= lo THEN st
  ELSE IF hi = lo + 1 THEN Op(st, lo)
  ELSE LET mid == (lo + hi) \div 2
       IN CHOOSE r \in {FoldRange(Op, mid, hi, left) :
                          left \in {FoldRange(Op, lo, mid, st)}} : TRUE

\* f[0] + ... + f[n-1]
SumTo(f, n) == LET Add(acc, i) == acc + f[i] IN FoldRange(Add, 0, n, 0)

GcdTo(f, n) == LET Step(acc, i) == Gcd(acc, f[i]) IN FoldRange(Step, 0, n, 0)

\* Non-negative integers beyond 32 bits: little-endian limbs in base 10000.
Base == 100 * 100

RECURSIVE Big(_)
Big(n) == IF n < Base THEN <<n>> ELSE <<n % Base>> \o Big(n \div Base)

Limb(a, i) == IF i >= 1 /\ i <= Len(a) THEN a[i] ELSE 0

RECURSIVE ConvSum(_, _, _, _)
\* sum over i = 1..m of a[i] * b[k + 1 - i]
ConvSum(a, b, k, m) ==
  IF m = 0 THEN 0 ELSE ConvSum(a, b, k, m - 1) + Limb(a, m) * Limb(b, k + 1 - m)

RECURSIVE Carry(_, _, _)
Carry(s, i, c) ==
  IF i > Len(s)
    THEN (IF c = 0 THEN <<>> ELSE Big(c))
    ELSE <<(s[i] + c) % Base>> \o Carry(s, i + 1, (s[i] + c) \div Base)

BigMul(a, b) ==
  Carry([k \in 1..(Len(a) + Len(b) - 1) |-> ConvSum(a, b, k, Len(a))], 1, 0)

RECURSIVE Strip(_)
Strip(a) == IF Len(a) > 1 /\ a[Len(a)] = 0 THEN Strip(SubSeq(a, 1, Len(a) - 1)) ELSE a

RECURSIVE LexLess(_, _, _)
\* a < b for two stripped numbers of the same length, from limb i downwards
LexLess(a, b, i) ==
  IF i = 0 THEN FALSE
  ELSE IF a[i] # b[i] THEN a[i] < b[i]
  ELSE LexLess(a, b, i - 1)

BigLess(a, b) ==
  LET x == Strip(a)
      y == Strip(b)
  IN IF Len(x) # Len(y) THEN Len(x) < Len(y) ELSE LexLess(x, y, Len(x))

\* a - b for a >= b, limb by limb from limb i with a borrow
RECURSIVE SubLimbs(_, _, _, _)
SubLimbs(a, b, i, borrow) ==
  IF i > Len(a) THEN <<>>
  ELSE LET d == a[i] - Limb(b, i) - borrow
       IN <<(d + Base) % Base>> \o SubLimbs(a, b, i + 1, IF d < 0 THEN 1 ELSE 0)

BigSub(a, b) == SubLimbs(a, b, 1, 0)

\* |a - b|
BigDiff(a, b) == IF BigLess(a, b) THEN BigSub(b, a) ELSE BigSub(a, b)

RECURSIVE DivLimbs(_, _, _, _)
\* limbs i..1 of a divided by a small q, r being the remainder carried in
DivLimbs(a, q, i, r) ==
  IF i = 0 THEN [q |-> <<>>, r |-> r]
  ELSE LET cur == r * Base + a[i]
           rest == DivLimbs(a, q, i - 1, cur % q)
       IN [q |-> Append(rest.q, cur \div q), r |-> rest.r]

\* quotient and remainder of a by q, for 0 < q < 2^15
DivSmall(a, q) == DivLimbs(a, q, Len(a), 0)

RECURSIVE Pow2(_)
Pow2(k) == IF k < 13 THEN <<2 ^ k>> ELSE BigMul(<<8192>>, Pow2(k - 13))

\* F applied to the value of v: v is evaluated first, where it stands, so
\* that long computations run one after the other and not inside one another.
Val(v, F(_)) == CHOOSE r \in {F(x) : x \in {v}} : TRUE

RECURSIVE ShiftRight(_, _)
\* floor(a / 2^r)
ShiftRight(a, r) ==
  IF r = 0 THEN a
  ELSE IF r >= 13 THEN Val(DivSmall(a, 8192).q, LAMBDA q : ShiftRight(q, r - 13))
  ELSE DivSmall(a, 2 ^ r).q

\* ------------------------------------------------------------------------
\* IEEE 754 doubles: [m, s] is m / 2^s, m of at most 53 bits
\* ------------------------------------------------------------------------
\* 2^53 = 9007199254740992
TwoTo53 == <<992, 5474, 1992, 9007>>

RECURSIVE ExcessBits(_)
\* the number of bits by which a exceeds 53 bits
ExcessBits(a) ==
  IF ~BigLess(a, BigMul(TwoTo53, <<8192>>))
    THEN Val(DivSmall(a, 8192).q, LAMBDA q : 13 + ExcessBits(q))
    ELSE CHOOSE r \in 0..13 :
           /\ BigLess(a, BigMul(TwoTo53, <<2 ^ r>>))
           /\ r > 0 => ~BigLess(a, BigMul(TwoTo53, <<2 ^ (r - 1)>>))

\* the r-bit remainder rem (doubled) of m against the half of 2^r
RoundUp(q, rem2, r) ==
  Val(Pow2(r), LAMBDA one :
    \/ BigLess(one, rem2)
    \/ (~BigLess(rem2, one) /\ q[1] % 2 = 1))

\* m / 2^s rounded to the nearest double, ties to the even mantissa
Round53(m, s) ==
  Val(ExcessBits(m), LAMBDA r :
    IF r = 0 THEN [m |-> Strip(m), s |-> s]
    ELSE Val(ShiftRight(m, r), LAMBDA q :
           Val(BigMul(q, Pow2(r)), LAMBDA low :
             Val(BigMul(BigSub(m, low), <<2>>), LAMBDA rem2 :
               [m |-> Strip(IF RoundUp(q, rem2, r) THEN Carry(q, 1, 1) ELSE q),
                s |-> s - r]))))

\* an integer as a double
FlInt(n) == [m |-> Big(n), s |-> 0]

\* p / q for integers p >= 0 and 0 < q < 2^14: 67 fraction bits of the
\* quotient and one more bit set when the division left a remainder
FlDiv(p, q) ==
  Val(BigMul(Big(p), Pow2(67)), LAMBDA n :
    Val(DivSmall(n, q), LAMBDA d :
      Val(Carry(BigMul(d.q, <<2>>), 1, IF d.r = 0 THEN 0 ELSE 1), LAMBDA m :
        Round53(m, 68))))

\* the mantissa of a over 2^s, for s >= a.s
Aligned(a, s) == BigMul(a.m, Pow2(s - a.s))

\* |a - b|
FlDiff(a, b) ==
  Val(Aligned(a, Max(a.s, b.s)), LAMBDA x :
    Val(Aligned(b, Max(a.s, b.s)), LAMBDA y :
      Val(BigDiff(x, y), LAMBDA d : Round53(d, Max(a.s, b.s)))))

\* a * b
FlMul(a, b) == Val(BigMul(a.m, b.m), LAMBDA p : Round53(p, a.s + b.s))

\* a > b
FlGreater(a, b) ==
  Val(Aligned(a, Max(a.s, b.s)), LAMBDA x :
    Val(Aligned(b, Max(a.s, b.s)), LAMBDA y : BigLess(y, x)))

\* ------------------------------------------------------------------------
\* JavaScript numbers given as options
\* ------------------------------------------------------------------------
Undef == [k |-> "undef", v2 |-> 0]
NaN == [k |-> "nan", v2 |-> 0]
Num(v) == [k |-> "num", v2 |-> 2 * v]
Half(v2) == [k |-> "num", v2 |-> v2]

\* a ?? b
Coalesce(a, b) == IF a.k = "undef" THEN b ELSE a
\* Math.min / Math.max: NaN if either argument is NaN
MathMin(a, b) == IF a.k = "nan" \/ b.k = "nan" THEN NaN ELSE IF a.v2 < b.v2 THEN a ELSE b
MathMax(a, b) == IF a.k = "nan" \/ b.k = "nan" THEN NaN ELSE IF a.v2 > b.v2 THEN a ELSE b
\* a > b and a < b are false when either side is NaN
JsGreater(a, b) == a.k = "num" /\ b.k = "num" /\ a.v2 > b.v2
JsLess(a, b) == a.k = "num" /\ b.k = "num" /\ a.v2 < b.v2

\* ------------------------------------------------------------------------
\* Gray images: [num |-> function 0..n-1 -> Nat, den |-> positive Nat]
\* ------------------------------------------------------------------------
Size(f) == Cardinality(DOMAIN f)

\* The same image over the smallest common denominator (values unchanged).
Reduce(G) ==
  LET g == Gcd(GcdTo(G.num, Size(G.num)), G.den)
  IN [num |-> [i \in DOMAIN G.num |-> G.num[i] \div g], den |-> G.den \div g]

\* 0.299 R + 0.587 G + 0.114 B per pixel, alpha ignored (in thousandths)
toGrayscale(data) ==
  Reduce([num |-> [i \in DOMAIN data |->
                     299 * data[i].r + 587 * data[i].g + 114 * data[i].b],
          den |-> 1000])

MinTo(f, n, m) == LET Step(acc, i) == Min(acc, f[i]) IN FoldRange(Step, 0, n, m)
MaxTo(f, n, m) == LET Step(acc, i) == Max(acc, f[i]) IN FoldRange(Step, 0, n, m)

contrastStretch(G) ==
  LET min == MinTo(G.num, Size(G.num), 255 * G.den)
      max == MaxTo(G.num, Size(G.num), 0)
      \* max - min || 1
      range == IF max - min = 0 THEN G.den ELSE max - min
  IN Reduce([num |-> [i \in DOMAIN G.num |->
                        Max(0, Min(255 * range, 255 * (G.num[i] - min)))],
             den |-> range])

\* Box blur with a (2k+1) x (2k+1) window over the interior; the k border
\* rows and columns keep their value.
BoxBlur(G, w, h, k) ==
  LET side == 2 * k + 1
      area == side * side
      Window(x, y) == {(y + dy) * w + (x + dx) : dy \in (0 - k)..k, dx \in (0 - k)..k}
      WSum(x, y) ==
        LET idx == Window(x, y)
            RECURSIVE Add(_)
            Add(S) == IF S = {} THEN 0
                      ELSE LET e == CHOOSE e \in S : TRUE IN G.num[e] + Add(S \ {e})
        IN Add(idx)
  IN Reduce([num |-> [i \in DOMAIN G.num |->
                        LET x == i % w
                            y == i \div w
                        IN IF y >= k /\ y < h - k /\ x >= k /\ x < w - k
                             THEN WSum(x, y)
                             ELSE area * G.num[i]],
             den |-> area * G.den])

blur3x3(G, w, h) == BoxBlur(G, w, h, 1)
blur5x5(G, w, h) == BoxBlur(G, w, h, 2)

\* ------------------------------------------------------------------------
\* Otsu threshold
\* ------------------------------------------------------------------------
\* hist[Math.min(255, Math.floor(gray[i]))]++
Histogram(G) ==
  [t \in 0..255 |->
     Cardinality({i \in DOMAIN G.num : Min(255, G.num[i] \div G.den) = t})]

\* sum over i < n of i * hist[i]
WeightedSum(hist, n) == LET Add(acc, i) == acc + i * hist[i] IN FoldRange(Add, 0, n, 0)

\* const mB = sumB / wB; const mF = (sum - sumB) / wF;
\* const varBetween = wB * wF * (mB - mF) ** 2, every operation rounded to a
\* double; the square of the difference is the square of its magnitude.
VarBetween(sum, sumB, wB, wF) ==
  Val(FlDiv(sumB, wB), LAMBDA mB :
    Val(FlDiv(sum - sumB, wF), LAMBDA mF :
      Val(FlDiff(mB, mF), LAMBDA d :
        Val(FlMul(d, d), LAMBDA sq : FlMul(FlInt(wB * wF), sq)))))

\* varBetween >= maxVar: the comparison that would keep the last maximum
VarAtLeast(v, m) == ~FlGreater(m, v)

\* varBetween > maxVar
VarGreater(v, m) == FlGreater(v, m)

\* One iteration of the loop over t; st.broken records the break. An empty
\* bin leaves wB, wF and sumB as they were, so that the iteration computes
\* the varBetween of the iteration before it, kept in st.v.
OtsuStep(hist, total, sum, st, t) ==
  IF st.broken THEN st
  ELSE LET wB == st.wB + hist[t]
           wF == total - wB
           sumB == st.sumB + t * hist[t]
       IN IF wB = 0 THEN [st EXCEPT !.wB = wB]
          ELSE IF wF = 0 THEN [st EXCEPT !.wB = wB, !.broken = TRUE]
          ELSE Val(IF hist[t] = 0 THEN st.v ELSE VarBetween(sum, sumB, wB, wF),
                   LAMBDA v :
                     IF VarGreater(v, st.maxVar)
                       THEN [st EXCEPT !.wB = wB, !.sumB = sumB, !.v = v,
                                       !.maxVar = v, !.bestT = t]
                       ELSE [st EXCEPT !.wB = wB, !.sumB = sumB, !.v = v])

otsuThreshold(G) ==
  LET total == Size(G.num)
      Loop(hist, sum) ==
        LET Step(st, t) == OtsuStep(hist, total, sum, st, t)
        IN FoldRange(Step, 0, 256,
                     [wB |-> 0, sumB |-> 0, v |-> FlInt(0), maxVar |-> FlInt(0),
                      bestT |-> 0, broken |-> FALSE]).bestT
  \* hist and sum are computed once, before the loop over t
  IN CHOOSE t \in UNION {{Loop(hist, sum) : sum \in {WeightedSum(hist, 256)}} :
                           hist \in {Histogram(G)}} : TRUE

\* ------------------------------------------------------------------------
\* Masks: functions 0..n-1 -> BOOLEAN
\* ------------------------------------------------------------------------
\* g <= threshold (dark foreground) or g >= threshold (light foreground);
\* both comparisons are false for a NaN threshold.
binarize(G, threshold, darkIsForeground) ==
  [i \in DOMAIN G.num |->
     /\ threshold.k = "num"
     /\ IF darkIsForeground
          THEN 2 * G.num[i] <= threshold.v2 * G.den
          ELSE 2 * G.num[i] >= threshold.v2 * G.den]

\* fg.filter(Boolean).length
FgCount(fg) == Cardinality({i \in DOMAIN fg : fg[i]})

\* frac < 0.12 || frac > 0.88 for frac = count / total
Degenerate(count, total) == 100 * count < 12 * total \/ 100 * count > 88 * total

Neighbours8(i, w) == {i + dy * w + dx : dy \in {-1, 0, 1}, dx \in {-1, 0, 1}}

Interior(i, w, h) ==
  LET x == i % w
      y == i \div w
  IN y >= 1 /\ y < h - 1 /\ x >= 1 /\ x < w - 1

dilate3(fg, w, h) ==
  [i \in DOMAIN fg |->
     IF Interior(i, w, h) /\ ~fg[i]
       THEN \E j \in Neighbours8(i, w) : fg[j]
       ELSE fg[i]]

erode3(fg, w, h) ==
  [i \in DOMAIN fg |->
     IF Interior(i, w, h) /\ fg[i]
       THEN \A j \in Neighbours8(i, w) : fg[j]
       ELSE fg[i]]

morphClose(fg, w, h) == erode3(dilate3(fg, w, h), w, h)
morphOpen(fg, w, h) == dilate3(erode3(fg, w, h), w, h)

\* ------------------------------------------------------------------------
\* Connected components (4-connectivity, union-find with path compression)
\* ------------------------------------------------------------------------
RECURSIVE FindRoot(_, _)
FindRoot(parent, x) == IF parent[x] = x THEN x ELSE FindRoot(parent, parent[x])

RECURSIVE Compress(_, _, _)
\* parent after find(x): every node on the path from x points to the root r
Compress(parent, x, r) ==
  IF parent[x] = x THEN parent
  ELSE Compress([parent EXCEPT ![x] = r], parent[x], r)

\* find(x) as the pair of its value and the parent array it leaves behind
Find(parent, x) ==
  LET r == FindRoot(parent, x)
  IN [root |-> r, parent |-> Compress(parent, x, r)]

\* A scan that takes the left label and never joins it with the upper one
LabelStepNoUnion(fg, width, st, i) ==
  IF ~fg[i] THEN st
  ELSE
    LET x == i % width
        y == i \div width
        left == IF x > 0 THEN st.labels[i - 1] ELSE 0
        up == IF y > 0 THEN st.labels[i - width] ELSE 0
    IN IF left # 0 THEN [st EXCEPT !.labels[i] = left]
       ELSE IF up # 0 THEN [st EXCEPT !.labels[i] = up]
       ELSE [st EXCEPT !.labels[i] = st.nextLabel,
                       !.parent[st.nextLabel] = st.nextLabel,
                       !.nextLabel = st.nextLabel + 1]

\* A scan that joins two labels under the larger of their roots
LabelStepMaxRoot(fg, width, st, i) ==
  IF ~fg[i] THEN st
  ELSE
    LET x == i % width
        y == i \div width
        left == IF x > 0 THEN st.labels[i - 1] ELSE 0
        up == IF y > 0 THEN st.labels[i - width] ELSE 0
    IN IF left # 0 /\ up # 0
         THEN LET fl == Find(st.parent, left)
                  fu == Find(fl.parent, up)
                  r == Max(fl.root, fu.root)
              IN [st EXCEPT !.labels[i] = r,
                            !.parent = [fu.parent EXCEPT ![fl.root] = r, ![fu.root] = r]]
       ELSE IF left # 0
         THEN LET fl == Find(st.parent, left)
              IN [st EXCEPT !.labels[i] = fl.root, !.parent = fl.parent]
       ELSE IF up # 0
         THEN LET fu == Find(st.parent, up)
              IN [st EXCEPT !.labels[i] = fu.root, !.parent = fu.parent]
       ELSE [st EXCEPT !.labels[i] = st.nextLabel,
                       !.parent[st.nextLabel] = st.nextLabel,
                       !.nextLabel = st.nextLabel + 1]

\* One pixel of the raster scan; parent[l] = 0 stands for an unset entry.
LabelStep(fg, width, st, i) ==
  IF ~fg[i] THEN st
  ELSE
    LET x == i % width
        y == i \div width
        left == IF x > 0 THEN st.labels[i - 1] ELSE 0
        up == IF y > 0 THEN st.labels[i - width] ELSE 0
    IN IF left # 0 /\ up # 0
         THEN LET fl == Find(st.parent, left)
                  fu == Find(fl.parent, up)
                  r == Min(fl.root, fu.root)
              IN [st EXCEPT !.labels[i] = r,
                            !.parent = [fu.parent EXCEPT ![fl.root] = r, ![fu.root] = r]]
       ELSE IF left # 0
         THEN LET fl == Find(st.parent, left)
              IN [st EXCEPT !.labels[i] = fl.root, !.parent = fl.parent]
       ELSE IF up # 0
         THEN LET fu == Find(st.parent, up)
              IN [st EXCEPT !.labels[i] = fu.root, !.parent = fu.parent]
       ELSE [st EXCEPT !.labels[i] = st.nextLabel,
                       !.parent[st.nextLabel] = st.nextLabel,
                       !.nextLabel = st.nextLabel + 1]

labelComponents(fg, width, height) ==
  LET n == width * height
      Step(st, i) == LabelStep(fg, width, st, i)
      scan == FoldRange(Step, 0, n,
                        [labels |-> [i \in 0..(n - 1) |-> 0],
                         parent |-> [l \in 1..(n + 1) |-> 0],
                         nextLabel |-> 1])
      labels == [i \in 0..(n - 1) |->
                   IF scan.labels[i] = 0 THEN 0
                   ELSE FindRoot(scan.parent, scan.labels[i])]
  IN [labels |-> labels,
      count |-> Cardinality({labels[i] : i \in 0..(n - 1)} \ {0})]

\* The keys of the counts Map in insertion order: the positive labels in the
\* order of their first pixel.
MapKeys(labels) ==
  LET Step(keys, i) ==
        IF labels[i] > 0 /\ \A k \in 1..Len(keys) : keys[k] # labels[i]
          THEN Append(keys, labels[i])
          ELSE keys
  IN FoldRange(Step, 0, Size(labels), <<>>)

LabelCount(labels, l) == Cardinality({i \in DOMAIN labels : labels[i] = l})

\* for (const [l, c] of counts) if (c > bestCount) { bestCount = c; bestLabel = l }
\* the first label of the map, whatever its pixel count
BestLabelFirst(labels, keys) == IF keys = <<>> THEN 0 ELSE keys[1]

BestLabel(labels, keys) ==
  LET Step(st, k) ==
        LET c == LabelCount(labels, keys[k])
        IN IF c > st.bestCount THEN [bestLabel |-> keys[k], bestCount |-> c] ELSE st
  IN FoldRange(Step, 1, Len(keys) + 1, [bestLabel |-> 0, bestCount |-> 0]).bestLabel

keepLargestComponent(fg, width, height) ==
  LET labels == labelComponents(fg, width, height).labels
      best == BestLabel(labels, MapKeys(labels))
  IN [i \in DOMAIN fg |-> fg[i] /\ labels[i] = best]

\* ------------------------------------------------------------------------
\* Flood fill from the top, left and right borders
\* ------------------------------------------------------------------------
RECURSIVE TopSeeds(_, _, _)
TopSeeds(fg, w, x) ==
  IF x = w THEN <<>>
  ELSE (IF ~fg[x] THEN <<x>> ELSE <<>>) \o TopSeeds(fg, w, x + 1)

RECURSIVE SideSeeds(_, _, _, _)
SideSeeds(fg, w, h, y) ==
  IF y = h THEN <<>>
  ELSE (IF ~fg[y * w] THEN <<y * w>> ELSE <<>>)
       \o (IF ~fg[y * w + w - 1] THEN <<y * w + w - 1>> ELSE <<>>)
       \o SideSeeds(fg, w, h, y + 1)

\* The four neighbours and the four diagonal ones as well
NeighboursWithDiagonals(idx, w, h) ==
  LET x == idx % w
      y == idx \div w
  IN << IF x > 0 THEN idx - 1 ELSE -1,
        IF x < w - 1 THEN idx + 1 ELSE -1,
        IF y > 0 THEN idx - w ELSE -1,
        IF y < h - 1 THEN idx + w ELSE -1,
        IF x > 0 /\ y > 0 THEN idx - w - 1 ELSE -1,
        IF x < w - 1 /\ y > 0 THEN idx - w + 1 ELSE -1,
        IF x > 0 /\ y < h - 1 THEN idx + w - 1 ELSE -1,
        IF x < w - 1 /\ y < h - 1 THEN idx + w + 1 ELSE -1 >>

\* The four neighbours in the order left, right, up, down; -1 where absent.
Neighbours4(idx, w, h) ==
  LET x == idx % w
      y == idx \div w
  IN << IF x > 0 THEN idx - 1 ELSE -1,
        IF x < w - 1 THEN idx + 1 ELSE -1,
        IF y > 0 THEN idx - w ELSE -1,
        IF y < h - 1 THEN idx + w ELSE -1 >>

\* An iteration that reads the head of the queue without shifting it off
FloodStepPeek(fg, w, h, st) ==
  IF st.head > Len(st.queue) THEN st
  ELSE LET idx == st.queue[st.head]
       IN IF idx \in st.visited \/ fg[idx]
            THEN st
            ELSE LET vis == st.visited \cup {idx}
                     nb == Neighbours4(idx, w, h)
                     push == SelectSeq(nb, LAMBDA n : n >= 0 /\ n \notin vis /\ ~fg[n])
                 IN [queue |-> st.queue \o push, head |-> st.head, visited |-> vis]

\* One iteration of while (queue.length > 0): the queue is kept whole, head
\* counting the entries shifted off it; visited is also the set of pixels
\* marked isBackground.
FloodStep(fg, w, h, st) ==
  IF st.head > Len(st.queue) THEN st
  ELSE LET idx == st.queue[st.head]
       IN IF idx \in st.visited \/ fg[idx]
            THEN [st EXCEPT !.head = st.head + 1]
            ELSE LET vis == st.visited \cup {idx}
                     nb == Neighbours4(idx, w, h)
                     push == SelectSeq(nb, LAMBDA n : n >= 0 /\ n \notin vis /\ ~fg[n])
                 IN [queue |-> st.queue \o push, head |-> st.head + 1, visited |-> vis]

\* Every pixel is pushed at most once as a seed per border it lies on and at
\* most once by each of its four neighbours, which bounds the iterations.
fillFromEdges(fg, w, h) ==
  LET Step(st, i) == FloodStep(fg, w, h, st)
      end == FoldRange(Step, 0, w + 2 * h + 4 * w * h,
                       [queue |-> TopSeeds(fg, w, 0) \o SideSeeds(fg, w, h, 0),
                        head |-> 1, visited |-> {}])
  IN [i \in 0..(w * h - 1) |-> i \notin end.visited]

\* ------------------------------------------------------------------------
\* Row spans
\* ------------------------------------------------------------------------
\* The mask as it is, no row filled
MaskAsIs(fg, w, h) == fg

extractOuterContour(fg, w, h) ==
  [i \in 0..(w * h - 1) |->
     LET y == i \div w
         x == i % w
         row == {c \in 0..(w - 1) : fg[y * w + c]}
     IN /\ row # {}
        /\ \E a \in row : a <= x
        /\ \E b \in row : x <= b]

\* ------------------------------------------------------------------------
\* Median filter, normalisation, resampling
\* ------------------------------------------------------------------------
\* An array read at an index that is no element (arr[0.5]) is undefined.
Undefined == -1

\* Rationals [n, d] in lowest terms; d = 0 is NaN.
RatNaN == [n |-> 0, d |-> 0]
Rat(n, d) == LET g == Gcd(n, d) IN [n |-> n \div g, d |-> d \div g]
RatLess(a, b) == a.d > 0 /\ b.d > 0 /\ a.n * b.d < b.n * a.d
RatLeq(a, b) == a.d > 0 /\ b.d > 0 /\ a.n * b.d <= b.n * a.d

\* a - b < 0 in the comparator (a, b) => a - b; undefined elements go last
\* without the comparator being asked.
SortsBefore(a, b) == a # Undefined /\ (b = Undefined \/ a < b)

RECURSIVE Insert(_, _)
Insert(sorted, e) ==
  IF sorted = <<>> THEN <<e>>
  ELSE IF SortsBefore(e, Head(sorted)) THEN <<e>> \o sorted
  ELSE <<Head(sorted)>> \o Insert(Tail(sorted), e)

RECURSIVE SortBuf(_)
SortBuf(buf) == IF buf = <<>> THEN <<>> ELSE Insert(SortBuf(Tail(buf)), Head(buf))

\* halfWindow2 is twice the half-window: j runs over -hw, -hw + 1, ... <= hw.
medianFilter(arr, halfWindow2) ==
  LET n == Size(arr)
      Buf(i) == [t \in 1..(halfWindow2 + 1) |->
                   LET k2 == Max(0, Min(2 * (n - 1), 2 * i - halfWindow2 + 2 * (t - 1)))
                   IN IF k2 % 2 = 0 THEN arr[k2 \div 2] ELSE Undefined]
  IN [i \in 0..(n - 1) |-> SortBuf(Buf(i))[((halfWindow2 + 1) \div 2) + 1]]

\* smoothing > 0 ? medianFilter(radiusByRow, Math.min(smoothing, 5)) : radiusByRow
Smoothed(radiusByRow, smoothing) ==
  IF JsGreater(smoothing, Num(0))
    THEN medianFilter(radiusByRow, MathMin(smoothing, Num(5)).v2)
    ELSE radiusByRow

\* Row i at height i/(len-1): the first row at the base
NormalizeBaseFirst(smoothed, maxRadius) ==
  LET len == Size(smoothed)
  IN [i \in 0..(len - 1) |->
        [x |-> IF maxRadius > 0
                 THEN (IF smoothed[i] = Undefined THEN RatNaN
                       ELSE Rat(Min(maxRadius, smoothed[i]), maxRadius))
                 ELSE Rat(0, 1),
         y |-> IF len > 1 THEN Rat(i, len - 1) ELSE Rat(1, 2)]]

\* rawPoints: one point per row, row i at height 1 - i/(len-1)
Normalize(smoothed, maxRadius) ==
  LET len == Size(smoothed)
  IN [i \in 0..(len - 1) |->
        [x |-> IF maxRadius > 0
                 THEN (IF smoothed[i] = Undefined THEN RatNaN
                       ELSE Rat(Min(maxRadius, smoothed[i]), maxRadius))
                 ELSE Rat(0, 1),
         y |-> IF len > 1 THEN Rat(len - 1 - i, len - 1) ELSE Rat(1, 2)]]

\* |rawPoints[i].y - yTarget| over the common denominator of both
Dy(p, yTarget) == Abs(p.y.n * yTarget.d - yTarget.n * p.y.d)

RECURSIVE Nearest(_, _, _, _)
\* index of the first raw point with the smallest |y - yTarget| (strict <)
Nearest(rawPoints, yTarget, i, best) ==
  IF i = Size(rawPoints) THEN best
  ELSE IF Dy(rawPoints[i], yTarget) * rawPoints[best].y.d
            < Dy(rawPoints[best], yTarget) * rawPoints[i].y.d
    THEN Nearest(rawPoints, yTarget, i + 1, i)
  ELSE Nearest(rawPoints, yTarget, i + 1, best)

\* A resampling that never takes more points than there are rows
SelectedAtMostRows(rawPoints, targetPoints) ==
  IF targetPoints.k # "num" THEN <<>>
  ELSE [k1 \in 1..Min(Size(rawPoints), (targetPoints.v2 + 1) \div 2) |->
          rawPoints[k1 - 1]]

\* The points pushed by the loop for (k = 0; k < targetPoints; k++): none when
\* targetPoints is NaN, ceil(targetPoints) of them otherwise.
Selected(rawPoints, targetPoints) ==
  IF targetPoints.k # "num" THEN <<>>
  ELSE [k1 \in 1..((targetPoints.v2 + 1) \div 2) |->
          LET k == k1 - 1
              yTarget == IF targetPoints.v2 > 2
                           THEN Rat(2 * k, targetPoints.v2 - 2)
                           ELSE Rat(1, 2)
          IN rawPoints[Nearest(rawPoints, yTarget, 1, 0)]]

RECURSIVE InsertByY(_, _)
\* stable insertion of p into a sequence sorted by y (NaN never arises in y)
InsertByY(sorted, p) ==
  IF sorted = <<>> THEN <<p>>
  ELSE IF RatLess(p.y, Head(sorted).y) THEN <<p>> \o sorted
  ELSE <<Head(sorted)>> \o InsertByY(Tail(sorted), p)

RECURSIVE SortByY(_, _)
\* out.sort((a, b) => a.y - b.y), stable: later elements go after equal ones
SortByY(out, n) ==
  IF n = 0 THEN <<>> ELSE InsertByY(SortByY(out, n - 1), out[n])

\* out[0].y = 0; out[out.length - 1].y = 1; sort
Finish(selected) ==
  LET n == Len(selected)
      first0 == [selected EXCEPT ![1].y = Rat(0, 1)]
      last1 == [first0 EXCEPT ![n].y = Rat(1, 1)]
  IN SortByY(last1, n)

\* ------------------------------------------------------------------------
\* Dimensions
\* ------------------------------------------------------------------------
Inf == [k |-> "inf", v2 |-> 0]

RECURSIVE IsqrtIn(_, _, _, _)
\* the r in lo..hi with r*r*q <= MAX_PIXELS*p < (r+1)*(r+1)*q
IsqrtIn(p, q, lo, hi) ==
  IF lo = hi THEN lo
  ELSE LET mid == (lo + hi + 1) \div 2
       IN IF BigLess(BigMul(Big(MAX_PIXELS), Big(p)),
                     BigMul(BigMul(Big(mid), Big(mid)), Big(q)))
            THEN IsqrtIn(p, q, lo, mid - 1)
            ELSE IsqrtIn(p, q, mid, hi)
\* Math.floor(x * Math.sqrt(MAX_PIXELS / (x * y))) = floor(sqrt(MAX_PIXELS * p / q))
\* for x : y = p : q, the dimensions being below 2^20
Isqrt(p, q) == IsqrtIn(p, q, 0, 1024 * 1024)

\* typeof w !== 'number' || !Number.isFinite(w) || w < 1
BadDimension(d) == d.k # "num" \/ d.v2 < 2

\* Lines 554-564 on finite width, height >= 1 (given doubled): the clamp to
\* MAX_WIDTH, the clamp to MAX_PIXELS, the final floors.
ResizeDims(width2, height2) ==
  LET h1 == IF width2 > 2 * MAX_WIDTH
              THEN 2 * ((height2 * MAX_WIDTH) \div width2)
              ELSE height2
      w1 == IF width2 > 2 * MAX_WIDTH THEN 2 * MAX_WIDTH ELSE width2
      over == w1 * h1 > 4 * MAX_PIXELS
      w2 == IF over THEN 2 * Max(1, Isqrt(w1, h1)) ELSE w1
      h2 == IF over THEN 2 * Max(1, Isqrt(h1, w1)) ELSE h1
  IN [w |-> w2 \div 2, h |-> h2 \div 2]

\* ------------------------------------------------------------------------
\* Inputs: rasters and option records
\* ------------------------------------------------------------------------
Black == [r |-> 0, g |-> 0, b |-> 0]
White == [r |-> 255, g |-> 255, b |-> 255]
Grey == [r |-> 200, g |-> 200, b |-> 200]
Dim == [r |-> 60, g |-> 60, b |-> 60]
Red == [r |-> 255, g |-> 0, b |-> 0]

\* Columns covered on each side of the vertical axis by the stepped triangle
\* in row y: 1 at the apex (top), growing to w \div 2 - 1 at the base (bottom).
TriangleCols(w, h, y) == 1 + (y * (w \div 2 - 2)) \div (h - 1)

\* Whether pixel (x, y) of a w x h scene belongs to the subject.
Subject(kind, w, h, x, y) ==
  CASE kind = "uniform" -> FALSE
    [] kind = "triangle" -> Abs(2 * x - (w - 1)) <= 2 * TriangleCols(w, h, y)
    [] kind = "vessel" -> y >= 1 /\ x >= 2 /\ x <= w - 3
    [] kind = "lopsided" -> y >= 1 /\ x >= 1 /\ x <= (IF y % 2 = 0 THEN w - 2 ELSE w - 4)
    [] kind = "small" -> y >= h - 5 /\ x >= 2 /\ x <= w - 3
    [] kind = "thin" -> x >= w \div 2 - 1 /\ x <= w \div 2
    [] kind = "blobs" -> \/ (y >= 1 /\ y <= h - 4 /\ x >= 1 /\ x <= w - 4)
                         \/ (y >= h - 2 /\ x >= w - 2)
    [] kind = "holed" -> /\ y >= 1 /\ x >= 1 /\ x <= w - 2
                         /\ ~(y = h \div 2 /\ x = w \div 2)
    [] kind = "arch" -> \/ (y = h - 4 /\ x >= 2 /\ x <= 5)
                        \/ (y > h - 4 /\ x \in {2, 5})

SceneKinds ==
  {"uniform", "triangle", "vessel", "lopsided", "small", "thin", "blobs", "holed", "arch"}

\* The pixels getImageData returns for the scene drawn at w x h.
ImageData(image, w, h) ==
  [i \in 0..(w * h - 1) |->
     IF Subject(image.kind, w, h, i % w, i \div w) THEN image.fgc ELSE image.bgc]

Image(kind, width, height, fgc, bgc) ==
  [kind |-> kind, width |-> width, height |-> height, fgc |-> fgc, bgc |-> bgc,
   hasContext |-> TRUE]

DefaultOptions ==
  [blur |-> Undef, smoothing |-> Undef, invert |-> "undefined", targetPoints |-> Undef,
   thresholdBias |-> Undef, cleanup |-> Undef, contrastStretch |-> FALSE]

Dims == {<<MaxW, MaxH>>, <<MaxW - 1, MaxH>>, <<MaxW, MaxH - 2>>}

ColourPairs == {<<Black, White>>, <<White, Black>>, <<Dim, Grey>>, <<Red, White>>}

Scenes ==
  {Image(kind, Num(d[1]), Num(d[2]), c[1], c[2]) :
     kind \in SceneKinds, d \in Dims, c \in ColourPairs}

UniformScenes ==
  {Image("uniform", Num(MaxW), Num(MaxH), c, c) : c \in {Black, Dim, Grey, White, Red}}

\* Rasters whose dimensions are unusable, and one without a drawing context.
BadImages ==
  {Image("uniform", wd, ht, Black, White) :
     wd \in {Num(0), Num(-3), NaN, Inf, Undef, Num(MaxW)},
     ht \in {Num(0), Half(1), NaN, Num(MaxH)}}
  \cup {[Image("vessel", Num(MaxW), Num(MaxH), Black, White) EXCEPT !.hasContext = FALSE]}

CoreScenes ==
  {Image(kind, Num(MaxW), Num(MaxH), Black, White) :
     kind \in {"triangle", "vessel", "holed", "arch"}}

OptionVariants ==
  {[DefaultOptions EXCEPT !.targetPoints = t] :
     t \in {Num(3), Num(8), Half(17), Num(24), Num(30), NaN}}
  \cup {[DefaultOptions EXCEPT !.smoothing = m] :
     m \in {Num(0), Num(-1), Num(1), Half(3), Num(7), NaN}}
  \cup {[DefaultOptions EXCEPT !.thresholdBias = b] :
     b \in {Num(50), Num(-50), Num(80), Num(-80), Half(61), NaN}}
  \cup {[DefaultOptions EXCEPT !.blur = b] : b \in {Num(0), Num(2)}}
  \cup {[DefaultOptions EXCEPT !.cleanup = c, !.invert = v, !.blur = Num(0)] :
     c \in {Num(1), Num(2)}, v \in {"undefined", "true"}}
  \cup {[DefaultOptions EXCEPT !.invert = v] : v \in {"true", "false"}}
  \cup {[DefaultOptions EXCEPT !.contrastStretch = TRUE]}

Inputs ==
  ((Scenes \cup UniformScenes \cup BadImages) \X {DefaultOptions})
  \cup (CoreScenes \X OptionVariants)

\* ------------------------------------------------------------------------
\* Recent finds kept in localStorage
\* ------------------------------------------------------------------------
VALID_FORMS == {"pitcher", "bowl", "cup", "pot", "jar", "goblet", "fragment"}

\* What can be found under STORAGE_KEY: nothing, the empty string, text that
\* is no JSON, JSON that is no array, or an array of JSON values.
Absent == [kind |-> "absent", items |-> <<>>]
EmptyText == [kind |-> "empty", items |-> <<>>]
Garbage == [kind |-> "garbage", items |-> <<>>]
NoArray == [kind |-> "scalar", items |-> <<>>]
Stored(items) == [kind |-> "array", items |-> items]

\* A find: id 0 stands for an id that is no string; a coordinate is "num",
\* "nan" (in memory only) or "null" (in JSON only); bands tells whether
\* decorationBands is an array.
Find3(id, form, profile) == [id |-> id, form |-> form, profile |-> profile, bands |-> TRUE]
Pt(x, y) == [x |-> x, y |-> y]
GoodFind(id) == Find3(id, "pot", <<Pt("num", "num"), Pt("num", "num")>>)
NanFind(id) == Find3(id, "bowl", <<Pt("num", "num"), Pt("nan", "num"), Pt("num", "num")>>)
ShortFind(id) == Find3(id, "cup", <<Pt("num", "num")>>)

\* JSON.stringify writes NaN as null; JSON.parse reads it back as null.
JsonNumber(c) == IF c = "nan" THEN "null" ELSE c
\* JSON.parse(JSON.stringify(spec))
JsonClone(spec) ==
  [spec EXCEPT !.profile = [i \in DOMAIN spec.profile |->
                              Pt(JsonNumber(spec.profile[i].x), JsonNumber(spec.profile[i].y))]]

isValidSpec(s) ==
  /\ s.id # 0
  /\ s.form \in VALID_FORMS
  /\ Len(s.profile) >= 2
  /\ \A i \in DOMAIN s.profile : s.profile[i].x = "num" /\ s.profile[i].y = "num"
  /\ s.bands

load(store) == IF store.kind = "array" THEN SelectSeq(store.items, isValidSpec) ELSE <<>>

\* localStorage.setItem(STORAGE_KEY, JSON.stringify(specs))
save(specs) == Stored([i \in DOMAIN specs |-> JsonClone(specs[i])])

WithoutId(list, id) == LET Other(s) == s.id # id IN SelectSeq(list, Other)

\* the whole list, however long
SliceAll(list) == list

\* next.slice(0, MAX_RECENT)
Slice(list) == SubSeq(list, 1, Min(Len(list), MAX_RECENT))

\* the list that addRecentFind saves
addRecentFindList(list, spec) == Slice(<<JsonClone(spec)>> \o WithoutId(list, spec.id))

NoOp == [op |-> "none", id |-> 0, before |-> <<>>]

\* ------------------------------------------------------------------------
\* extractProfileFromImage as a state machine: one action per stage
\* ------------------------------------------------------------------------
VARIABLES
  image,             \* the raster handed to the call
  options,           \* the options record handed to the call
  pc,                \* the stage the call has reached
  targetPoints,      \* line 543
  w, h,              \* processing dimensions
  gray,              \* the gray image
  thresh,            \* the biased threshold
  darkIsForeground,
  passes,            \* the binarize calls so far: <<[threshold, dark, count]>>
  fg,                \* the mask
  box,               \* [yMin, yMax, xMin, xMax]
  centerlineX,
  extractRightSide,
  radiusByRow,
  maxRadius,
  smoothed,
  rawPoints,
  result,            \* what the call returned, or that it threw
  calls,             \* number of calls started
  earlier,           \* input and result of every call that returned
  storage,           \* what localStorage holds under STORAGE_KEY
  lastOp,            \* the last call on the recent finds and the list before it
  out                \* what a function applied on its own returned

vars == <<image, options, pc, targetPoints, w, h, gray, thresh, darkIsForeground,
          passes, fg, box, centerlineX, extractRightSide, radiusByRow, maxRadius,
          smoothed, rawPoints, result, calls, earlier, storage, lastOp, out>>

NoResult == [kind |-> "none", profile |-> <<>>, decorationBands |-> <<>>]
EmptyResult == [kind |-> "returned", profile |-> <<>>, decorationBands |-> <<>>]
Thrown == [kind |-> "threw", profile |-> <<>>, decorationBands |-> <<>>]
Returned(profile) == [kind |-> "returned", profile |-> profile, decorationBands |-> <<>>]

\* maxRadius kept between calls, as a variable of the module would be
StaleMaxRadius(previous) == previous

\* let maxRadius = 0 (line 814): a local of the call, whatever an earlier call left
InitialMaxRadius(previous) == 0

\* Every local of a call is created by the call itself.
FreshLocals ==
  /\ targetPoints = Undef
  /\ w = 0
  /\ h = 0
  /\ gray = [num |-> <<>>, den |-> 1]
  /\ thresh = Undef
  /\ darkIsForeground = TRUE
  /\ passes = <<>>
  /\ fg = <<>>
  /\ box = [yMin |-> 0, yMax |-> 0, xMin |-> 0, xMax |-> 0]
  /\ centerlineX = 0
  /\ extractRightSide = TRUE
  /\ radiusByRow = <<>>
  /\ maxRadius = InitialMaxRadius(0)
  /\ smoothed = <<>>
  /\ rawPoints = <<>>
  /\ result = NoResult

InitWith(inputs) ==
  /\ \E in \in inputs : image = in[1] /\ options = in[2]
  /\ pc = "entry"
  /\ FreshLocals
  /\ calls = 1
  /\ earlier = <<>>
  /\ storage = Absent
  /\ lastOp = NoOp
  /\ out = <<>>

Init == InitWith(Inputs)

\* A return statement: the result, added to the record of the calls made.
Return(r) ==
  /\ result' = r
  /\ pc' = "done"
  /\ earlier' = Append(earlier, [image |-> image, options |-> options, result |-> r])
  /\ UNCHANGED <<storage, lastOp, out>>

Goto(stage) ==
  /\ pc' = stage
  /\ result' = result
  /\ earlier' = earlier
  /\ UNCHANGED <<storage, lastOp, out>>

\* Lines 541-565: option defaults, the drawing context, the dimensions.
Enter ==
  /\ pc = "entry"
  /\ targetPoints' = MathMax(Num(8), MathMin(Num(24),
                        Coalesce(options.targetPoints, Num(DEFAULT_TARGET_POINTS))))
  /\ IF ~image.hasContext \/ BadDimension(image.width) \/ BadDimension(image.height)
       THEN Return(EmptyResult) /\ UNCHANGED <<w, h>>
       ELSE LET d == ResizeDims(image.width.v2, image.height.v2)
            IN IF d.w < 1 \/ d.h < 1
                 THEN Return(EmptyResult) /\ UNCHANGED <<w, h>>
                 ELSE w' = d.w /\ h' = d.h /\ Goto("draw")
  /\ UNCHANGED <<image, options, gray, thresh, darkIsForeground, passes, fg, box,
                 centerlineX, extractRightSide, radiusByRow, maxRadius, smoothed,
                 rawPoints, calls>>

\* Lines 567-574: draw, read back, grayscale, optional stretch, optional blur.
Preprocess ==
  /\ pc = "draw"
  /\ LET blurLevel == Coalesce(options.blur, Num(1))
         g0 == toGrayscale(ImageData(image, w, h))
         g1 == IF options.contrastStretch THEN contrastStretch(g0) ELSE g0
     IN gray' = IF blurLevel = Num(1) THEN blur3x3(g1, w, h)
                ELSE IF blurLevel = Num(2) THEN blur5x5(g1, w, h)
                ELSE g1
  /\ Goto("threshold")
  /\ UNCHANGED <<image, options, targetPoints, w, h, thresh, darkIsForeground, passes,
                 fg, box, centerlineX, extractRightSide, radiusByRow, maxRadius,
                 smoothed, rawPoints, calls>>

\* Math.max(lo, Math.min(hi, x)) on doubled values
Clamp2(lo2, hi2, x) == MathMax(Half(lo2), MathMin(Half(hi2), x))
\* x + d for a number x and a doubled integer d
Plus2(x, d2) == IF x.k = "num" THEN Half(x.v2 + d2) ELSE x

\* Line 593
Bias(opts) == Clamp2(-100, 100, Coalesce(opts.thresholdBias, Num(0)))

\* Line 594
BiasedThreshold(t, bias) ==
  Clamp2(0, 510, IF bias.k = "num" THEN Half(2 * t + bias.v2) ELSE bias)

\* Lines 592-594
Threshold ==
  /\ pc = "threshold"
  /\ thresh' = BiasedThreshold(otsuThreshold(gray), Bias(options))
  /\ Goto("binarize")
  /\ UNCHANGED <<image, options, targetPoints, w, h, gray, darkIsForeground, passes, fg,
                 box, centerlineX, extractRightSide, radiusByRow, maxRadius, smoothed,
                 rawPoints, calls>>

\* Lines 577-590: the border pixels, the corners (and for one row or column,
\* every pixel) entering the average more than once.
detectBackgroundColor(G, wd, ht) ==
  LET top == SumTo([x \in 0..(wd - 1) |-> G.num[x]], wd)
      bottom == SumTo([x \in 0..(wd - 1) |-> G.num[(ht - 1) * wd + x]], wd)
      left == SumTo([y \in 0..(ht - 1) |-> G.num[y * wd]], ht)
      right == SumTo([y \in 0..(ht - 1) |-> G.num[y * wd + wd - 1]], ht)
  IN [isDark |-> top + bottom + left + right < 128 * (2 * wd + 2 * ht) * G.den]

Pass(G, threshold, dark) ==
  [threshold |-> threshold, dark |-> dark, count |-> FgCount(binarize(G, threshold, dark))]

\* A chain that hands on the first binarization whatever its foreground fraction
BinarizeChainFirstOnly(G, wd, ht, t, invert) ==
  LET isDark == detectBackgroundColor(G, wd, ht).isDark
      dark1 == IF invert # "undefined" THEN invert = "true" ELSE ~isDark
      p1 == Pass(G, t, dark1)
  IN [passes |-> <<p1>>, chosen |-> p1]

\* A chain that adopts the alternative mask whatever its foreground fraction
BinarizeChainAdoptAlways(G, wd, ht, t, invert) ==
  LET total == Size(G.num)
      isDark == detectBackgroundColor(G, wd, ht).isDark
      dark1 == IF invert # "undefined" THEN invert = "true" ELSE ~isDark
      p1 == Pass(G, t, dark1)
      flip == invert = "undefined" /\ Degenerate(p1.count, total)
      p2 == Pass(G, t, ~dark1)
      cur == IF flip THEN p2 ELSE p1
      again == invert = "undefined" /\ Degenerate(cur.count, total)
      threshAlt == IF isDark THEN Clamp2(0, 510, Plus2(t, -60))
                             ELSE Clamp2(0, 510, Plus2(t, 60))
      pAlt == Pass(G, threshAlt, ~isDark)
  IN [passes |-> <<p1>> \o (IF flip THEN <<p2>> ELSE <<>>)
                        \o (IF again THEN <<pAlt>> ELSE <<>>),
      chosen |-> IF again THEN pAlt ELSE cur]

\* Lines 596-637: the binarizations in the order they are made, the last
\* entry of chain being the mask handed on.
BinarizeChain(G, wd, ht, t, invert) ==
  LET total == Size(G.num)
      isDark == detectBackgroundColor(G, wd, ht).isDark
      dark1 == IF invert # "undefined" THEN invert = "true" ELSE ~isDark
      p1 == Pass(G, t, dark1)
      flip == invert = "undefined" /\ Degenerate(p1.count, total)
      p2 == Pass(G, t, ~dark1)
      cur == IF flip THEN p2 ELSE p1
      again == invert = "undefined" /\ Degenerate(cur.count, total)
      threshAlt == IF isDark THEN Clamp2(0, 510, Plus2(t, -60))
                             ELSE Clamp2(0, 510, Plus2(t, 60))
      pAlt == Pass(G, threshAlt, ~isDark)
      adopt == again /\ ~Degenerate(pAlt.count, total)
  IN [passes |-> <<p1>> \o (IF flip THEN <<p2>> ELSE <<>>)
                        \o (IF again THEN <<pAlt>> ELSE <<>>),
      chosen |-> IF adopt THEN pAlt ELSE cur]

Binarize ==
  /\ pc = "binarize"
  /\ LET c == BinarizeChain(gray, w, h, thresh, options.invert)
     IN /\ passes' = c.passes
        /\ darkIsForeground' = c.chosen.dark
        /\ fg' = binarize(gray, c.chosen.threshold, c.chosen.dark)
  /\ Goto("largest")
  /\ UNCHANGED <<image, options, targetPoints, w, h, gray, thresh, box, centerlineX,
                 extractRightSide, radiusByRow, maxRadius, smoothed, rawPoints, calls>>

\* Line 639
Largest ==
  /\ pc = "largest"
  /\ fg' = keepLargestComponent(fg, w, h)
  /\ Goto("cleanup")
  /\ UNCHANGED <<image, options, targetPoints, w, h, gray, thresh, darkIsForeground,
                 passes, box, centerlineX, extractRightSide, radiusByRow, maxRadius,
                 smoothed, rawPoints, calls>>

\* options.cleanup ?? 0
CleanupLevel(opts) == Coalesce(opts.cleanup, Num(0))
\* cleanupLevel >= n
AtLeast(level, n) == level.k = "num" /\ level.v2 >= 2 * n

\* Lines 642-652
CleanedUp(mask, wd, ht, level) ==
  LET m1 == IF AtLeast(level, 1)
              THEN keepLargestComponent(morphClose(mask, wd, ht), wd, ht)
              ELSE mask
  IN IF AtLeast(level, 2)
       THEN keepLargestComponent(morphClose(morphOpen(m1, wd, ht), wd, ht), wd, ht)
       ELSE m1

Cleanup ==
  /\ pc = "cleanup"
  /\ fg' = CleanedUp(fg, w, h, CleanupLevel(options))
  /\ Goto("fill")
  /\ UNCHANGED <<image, options, targetPoints, w, h, gray, thresh, darkIsForeground,
                 passes, box, centerlineX, extractRightSide, radiusByRow, maxRadius,
                 smoothed, rawPoints, calls>>

\* Lines 704-721
EdgeFilled(mask, wd, ht, level) ==
  IF AtLeast(level, 1) /\ Degenerate(FgCount(mask), wd * ht)
    THEN LET fgFilled == fillFromEdges(mask, wd, ht)
         IN IF ~Degenerate(FgCount(fgFilled), wd * ht)
              THEN keepLargestComponent(fgFilled, wd, ht)
              ELSE mask
    ELSE mask

EdgeFill ==
  /\ pc = "fill"
  /\ fg' = EdgeFilled(fg, w, h, CleanupLevel(options))
  /\ Goto("contour")
  /\ UNCHANGED <<image, options, targetPoints, w, h, gray, thresh, darkIsForeground,
                 passes, box, centerlineX, extractRightSide, radiusByRow, maxRadius,
                 smoothed, rawPoints, calls>>

\* Line 763
Contour ==
  /\ pc = "contour"
  /\ fg' = extractOuterContour(fg, w, h)
  /\ Goto("bbox")
  /\ UNCHANGED <<image, options, targetPoints, w, h, gray, thresh, darkIsForeground,
                 passes, box, centerlineX, extractRightSide, radiusByRow, maxRadius,
                 smoothed, rawPoints, calls>>

\* Lines 766-779: the running minima and maxima start at h, 0, w, 0.
BoundingBoxOf(mask, wd, ht) ==
  LET on == {i \in DOMAIN mask : mask[i]}
      Least(S, start) == IF \E e \in S : e < start
                           THEN CHOOSE e \in S : \A f \in S : e <= f
                           ELSE start
      Most(S, start) == IF \E e \in S : e > start
                          THEN CHOOSE e \in S : \A f \in S : e >= f
                          ELSE start
  IN [yMin |-> Least({i \div wd : i \in on}, ht),
      yMax |-> Most({i \div wd : i \in on}, 0),
      xMin |-> Least({i % wd : i \in on}, wd),
      xMax |-> Most({i % wd : i \in on}, 0)]

\* Lines 765-781
BoundingBox ==
  /\ pc = "bbox"
  /\ box' = BoundingBoxOf(fg, w, h)
  /\ IF box'.yMax - box'.yMin + 1 < 10 THEN Return(EmptyResult) ELSE Goto("axis")
  /\ UNCHANGED <<image, options, targetPoints, w, h, gray, thresh, darkIsForeground,
                 passes, fg, centerlineX, extractRightSide, radiusByRow, maxRadius,
                 smoothed, rawPoints, calls>>

\* The foreground pixels of rows yMin..yMax
InBox(mask, wd, b) == {i \in DOMAIN mask : mask[i] /\ i \div wd >= b.yMin /\ i \div wd <= b.yMax}

\* Lines 785-796: the element at index floor(n/2) of the sorted x-coordinates
Centerline(mask, wd, b) ==
  LET on == InBox(mask, wd, b)
      n == Cardinality(on)
      AtMost(x) == Cardinality({i \in on : i % wd <= x})
  IN IF n > 0
       THEN CHOOSE x \in 0..(wd - 1) :
              /\ AtMost(x) > n \div 2
              /\ \A x0 \in 0..(wd - 1) : x0 < x => AtMost(x0) <= n \div 2
       ELSE (b.xMin + b.xMax) \div 2

\* The right side only when it has strictly more pixels
RightSideStrict(mask, wd, b, cx) ==
  LET on == {i \in DOMAIN mask : mask[i] /\ i \div wd >= b.yMin /\ i \div wd <= b.yMax}
  IN Cardinality({i \in on : i % wd > cx}) > Cardinality({i \in on : i % wd < cx})

\* Lines 800-810
RightSide(mask, wd, b, cx) ==
  LET on == InBox(mask, wd, b)
  IN Cardinality({i \in on : i % wd > cx}) >= Cardinality({i \in on : i % wd < cx})

Axis ==
  /\ pc = "axis"
  /\ centerlineX' = Centerline(fg, w, box)
  /\ extractRightSide' = RightSide(fg, w, box, centerlineX')
  /\ Goto("radius")
  /\ UNCHANGED <<image, options, targetPoints, w, h, gray, thresh, darkIsForeground,
                 passes, fg, box, radiusByRow, maxRadius, smoothed, rawPoints, calls>>

\* Lines 816-837: row i of the sequence is image row yMin + i
RadiusByRow(mask, wd, b, cx, right) ==
  [i \in 0..(b.yMax - b.yMin) |->
     LET y == b.yMin + i
         side == IF right THEN {x \in cx..(wd - 1) : mask[y * wd + x]}
                          ELSE {x \in 0..cx : mask[y * wd + x]}
         dist == {Abs(x - cx) : x \in side}
     IN IF dist = {} THEN 0 ELSE CHOOSE d \in dist : \A e \in dist : e <= d]

\* Lines 812-838
Radius ==
  /\ pc = "radius"
  /\ radiusByRow' = RadiusByRow(fg, w, box, centerlineX, extractRightSide)
  /\ maxRadius' = MaxTo(radiusByRow', Size(radiusByRow'), maxRadius)
  /\ IF maxRadius' < 2 THEN Return(EmptyResult) ELSE Goto("smooth")
  /\ UNCHANGED <<image, options, targetPoints, w, h, gray, thresh, darkIsForeground,
                 passes, fg, box, centerlineX, extractRightSide, smoothed, rawPoints,
                 calls>>

\* Lines 840-841
Smooth ==
  /\ pc = "smooth"
  /\ smoothed' = Smoothed(radiusByRow, Coalesce(options.smoothing, Num(2)))
  /\ Goto("normalize")
  /\ UNCHANGED <<image, options, targetPoints, w, h, gray, thresh, darkIsForeground,
                 passes, fg, box, centerlineX, extractRightSide, radiusByRow, maxRadius,
                 rawPoints, calls>>

\* Lines 843-850
NormalizeRows ==
  /\ pc = "normalize"
  /\ rawPoints' = Normalize(smoothed, maxRadius)
  /\ Goto("resample")
  /\ UNCHANGED <<image, options, targetPoints, w, h, gray, thresh, darkIsForeground,
                 passes, fg, box, centerlineX, extractRightSide, radiusByRow, maxRadius,
                 smoothed, calls>>

\* Lines 852-871: out[0].y = 0 throws a TypeError when nothing was pushed.
Resampled(points, tp) ==
  LET selected == Selected(points, tp)
  IN IF selected = <<>> THEN Thrown ELSE Returned(Finish(selected))

Resample ==
  /\ pc = "resample"
  /\ Return(Resampled(rawPoints, targetPoints))
  /\ UNCHANGED <<image, options, targetPoints, w, h, gray, thresh, darkIsForeground,
                 passes, fg, box, centerlineX, extractRightSide, radiusByRow, maxRadius,
                 smoothed, rawPoints, calls>>

Stage ==
  \/ Enter
  \/ Preprocess
  \/ Threshold
  \/ Binarize
  \/ Largest
  \/ Cleanup
  \/ EdgeFill
  \/ Contour
  \/ BoundingBox
  \/ Axis
  \/ Radius
  \/ Smooth
  \/ NormalizeRows
  \/ Resample

Next == Stage

Spec == Init /\ [][Next]_vars

\* ------------------------------------------------------------------------
\* Several calls in a row
\* ------------------------------------------------------------------------
TwiceInputs ==
  {<<Image("triangle", Num(MaxW), Num(MaxH), Black, White), DefaultOptions>>,
   <<Image("vessel", Num(MaxW), Num(MaxH), Black, White), DefaultOptions>>,
   <<Image("vessel", Num(MaxW), Num(MaxH), Black, White),
     [DefaultOptions EXCEPT !.targetPoints = NaN]>>,
   <<Image("small", Num(MaxW), Num(MaxH), White, Black), DefaultOptions>>}

\* The next call of extractProfileFromImage: its parameters are bound and its
\* locals declared anew.
CallAgain ==
  /\ pc = "done"
  /\ calls < MaxCalls
  /\ calls' = calls + 1
  /\ \E in \in TwiceInputs : image' = in[1] /\ options' = in[2]
  /\ pc' = "entry"
  /\ targetPoints' = Undef
  /\ w' = 0
  /\ h' = 0
  /\ gray' = [num |-> <<>>, den |-> 1]
  /\ thresh' = Undef
  /\ darkIsForeground' = TRUE
  /\ passes' = <<>>
  /\ fg' = <<>>
  /\ box' = [yMin |-> 0, yMax |-> 0, xMin |-> 0, xMax |-> 0]
  /\ centerlineX' = 0
  /\ extractRightSide' = TRUE
  /\ radiusByRow' = <<>>
  /\ maxRadius' = InitialMaxRadius(maxRadius)
  /\ smoothed' = <<>>
  /\ rawPoints' = <<>>
  /\ result' = NoResult
  /\ UNCHANGED <<earlier, storage, lastOp, out>>

NextTwice == Stage \/ CallAgain

SpecTwice == InitWith(TwiceInputs) /\ [][NextTwice]_vars

\* ------------------------------------------------------------------------
\* otsuThreshold on two-peak images
\* ------------------------------------------------------------------------
OtsuLevels == {0, 1, 2, 100, 128, 254, 255}

\* na pixels of intensity a (+ 1/2 when half = 1) followed by nb of intensity b
PeakImage(a, b, na, nb, half) ==
  [num |-> [i \in 0..(na + nb - 1) |-> IF i < na THEN 2 * a + half ELSE 2 * b + half],
   den |-> 2]

InitOtsu ==
  /\ \E a \in OtsuLevels, b \in OtsuLevels, na \in 1..MaxCount, nb \in 1..MaxCount,
        half \in {0, 1} :
       /\ a < b
       /\ image = [kind |-> "peaks", a |-> a, b |-> b, na |-> na, nb |-> nb]
       /\ gray = PeakImage(a, b, na, nb, half)
  /\ options = DefaultOptions
  /\ pc = "otsu"
  /\ targetPoints = Undef
  /\ w = 0
  /\ h = 0
  /\ thresh = Undef
  /\ darkIsForeground = TRUE
  /\ passes = <<>>
  /\ fg = <<>>
  /\ box = [yMin |-> 0, yMax |-> 0, xMin |-> 0, xMax |-> 0]
  /\ centerlineX = 0
  /\ extractRightSide = TRUE
  /\ radiusByRow = <<>>
  /\ maxRadius = 0
  /\ smoothed = <<>>
  /\ rawPoints = <<>>
  /\ result = NoResult
  /\ calls = 1
  /\ earlier = <<>>
  /\ storage = Absent
  /\ lastOp = NoOp
  /\ out = <<>>

\* let thresh = otsuThreshold(gray) (line 592)
ApplyOtsu ==
  /\ pc = "otsu"
  /\ thresh' = Num(otsuThreshold(gray))
  /\ pc' = "otsu-done"
  /\ UNCHANGED <<image, options, targetPoints, w, h, gray, darkIsForeground, passes, fg,
                 box, centerlineX, extractRightSide, radiusByRow, maxRadius, smoothed,
                 rawPoints, result, calls, earlier, storage, lastOp, out>>

NextOtsu == ApplyOtsu

SpecOtsu == InitOtsu /\ [][NextOtsu]_vars

\* ------------------------------------------------------------------------
\* otsuThreshold on images of up to three intensities
\* ------------------------------------------------------------------------
\* na pixels of intensity a, nb of b and nc of c (+ 1/2 each when half = 1)
LevelsImage(a, b, c, na, nb, nc, half) ==
  [num |-> [i \in 0..(na + nb + nc - 1) |->
              IF i < na THEN 2 * a + half
              ELSE IF i < na + nb THEN 2 * b + half ELSE 2 * c + half],
   den |-> 2]

InitLevels ==
  /\ \E a \in {0, 1, 2, 128, 255}, b \in {0, 1, 2, 128, 255}, c \in {0, 1, 2, 128, 255},
        na \in 1..MaxCount, nb \in 0..MaxCount, nc \in 0..MaxCount, half \in {0, 1} :
       /\ a < b
       /\ b < c
       /\ image = [kind |-> "levels", a |-> a, b |-> b, c |-> c,
                                      na |-> na, nb |-> nb, nc |-> nc]
       /\ gray = LevelsImage(a, b, c, na, nb, nc, half)
  /\ options = DefaultOptions
  /\ pc = "otsu"
  /\ targetPoints = Undef
  /\ w = 0
  /\ h = 0
  /\ thresh = Undef
  /\ darkIsForeground = TRUE
  /\ passes = <<>>
  /\ fg = <<>>
  /\ box = [yMin |-> 0, yMax |-> 0, xMin |-> 0, xMax |-> 0]
  /\ centerlineX = 0
  /\ extractRightSide = TRUE
  /\ radiusByRow = <<>>
  /\ maxRadius = 0
  /\ smoothed = <<>>
  /\ rawPoints = <<>>
  /\ result = NoResult
  /\ calls = 1
  /\ earlier = <<>>
  /\ storage = Absent
  /\ lastOp = NoOp
  /\ out = <<>>

SpecLevels == InitLevels /\ [][NextOtsu]_vars

\* ------------------------------------------------------------------------
\* keepLargestComponent on every mask of a three-row strip
\* ------------------------------------------------------------------------
InitMask ==
  /\ w = MaskW
  /\ h = 3
  /\ fg \in [0..(MaskW * 3 - 1) -> BOOLEAN]
  /\ image = [kind |-> "mask", mask |-> fg]
  /\ options = DefaultOptions
  /\ pc = "mask"
  /\ targetPoints = Undef
  /\ gray = [num |-> <<>>, den |-> 1]
  /\ thresh = Undef
  /\ darkIsForeground = TRUE
  /\ passes = <<>>
  /\ box = [yMin |-> 0, yMax |-> 0, xMin |-> 0, xMax |-> 0]
  /\ centerlineX = 0
  /\ extractRightSide = TRUE
  /\ radiusByRow = <<>>
  /\ maxRadius = 0
  /\ smoothed = <<>>
  /\ rawPoints = <<>>
  /\ result = NoResult
  /\ calls = 1
  /\ earlier = <<>>
  /\ storage = Absent
  /\ lastOp = NoOp
  /\ out = <<>>

\* fg = keepLargestComponent(fg, w, h) (line 639)
ApplyKeepLargest ==
  /\ pc = "mask"
  /\ fg' = keepLargestComponent(fg, w, h)
  /\ pc' = "kept"
  /\ UNCHANGED <<image, options, targetPoints, w, h, gray, thresh, darkIsForeground,
                 passes, box, centerlineX, extractRightSide, radiusByRow, maxRadius,
                 smoothed, rawPoints, result, calls, earlier, storage, lastOp, out>>

\* labelComponents(fg, width, height) (line 498)
ApplyLabelComponents ==
  /\ pc = "mask"
  /\ out' = labelComponents(fg, w, h)
  /\ pc' = "labelled"
  /\ UNCHANGED <<image, options, targetPoints, w, h, gray, thresh, darkIsForeground,
                 passes, fg, box, centerlineX, extractRightSide, radiusByRow, maxRadius,
                 smoothed, rawPoints, result, calls, earlier, storage, lastOp>>

\* ------------------------------------------------------------------------
\* Threshold and polarity on small two-level gray images
\* ------------------------------------------------------------------------
BorderDims == {<<3, 3>>, <<4, 2>>}

InitBorder ==
  /\ \E d \in BorderDims :
       /\ w = d[1]
       /\ h = d[2]
       /\ \E px \in [0..(d[1] * d[2] - 1) -> {0, 255}] : gray = [num |-> px, den |-> 1]
  /\ image = [kind |-> "gray"]
  /\ options = DefaultOptions
  /\ pc = "threshold"
  /\ targetPoints = Num(DEFAULT_TARGET_POINTS)
  /\ thresh = Undef
  /\ darkIsForeground = TRUE
  /\ passes = <<>>
  /\ fg = <<>>
  /\ box = [yMin |-> 0, yMax |-> 0, xMin |-> 0, xMax |-> 0]
  /\ centerlineX = 0
  /\ extractRightSide = TRUE
  /\ radiusByRow = <<>>
  /\ maxRadius = 0
  /\ smoothed = <<>>
  /\ rawPoints = <<>>
  /\ result = NoResult
  /\ calls = 1
  /\ earlier = <<>>
  /\ storage = Absent
  /\ lastOp = NoOp
  /\ out = <<>>

NextBorder == Threshold \/ Binarize

SpecBorder == InitBorder /\ [][NextBorder]_vars

\* Masks of four rows, each row one of a few five-pixel patterns
CleanupRows ==
  {<<FALSE, FALSE, FALSE, FALSE, FALSE>>,
   <<FALSE, FALSE, FALSE, FALSE, TRUE>>,
   <<FALSE, FALSE, FALSE, TRUE, TRUE>>,
   <<FALSE, TRUE, TRUE, TRUE, FALSE>>,
   <<TRUE, FALSE, FALSE, TRUE, FALSE>>,
   <<TRUE, TRUE, TRUE, TRUE, FALSE>>,
   <<TRUE, TRUE, TRUE, TRUE, TRUE>>}

InitCleanup ==
  /\ w = 5
  /\ h = 4
  /\ \E rows \in [0..3 -> CleanupRows] :
       fg = [i \in 0..19 |-> rows[i \div 5][(i % 5) + 1]]
  /\ image = [kind |-> "mask", mask |-> fg]
  /\ options = DefaultOptions
  /\ pc = "mask"
  /\ targetPoints = Undef
  /\ gray = [num |-> <<>>, den |-> 1]
  /\ thresh = Undef
  /\ darkIsForeground = TRUE
  /\ passes = <<>>
  /\ box = [yMin |-> 0, yMax |-> 0, xMin |-> 0, xMax |-> 0]
  /\ centerlineX = 0
  /\ extractRightSide = TRUE
  /\ radiusByRow = <<>>
  /\ maxRadius = 0
  /\ smoothed = <<>>
  /\ rawPoints = <<>>
  /\ result = NoResult
  /\ calls = 1
  /\ earlier = <<>>
  /\ storage = Absent
  /\ lastOp = NoOp
  /\ out = <<>>

\* Lines 639-652 on a mask: the largest component, then the cleanup of a level
ApplyCleanup ==
  /\ pc = "mask"
  /\ \E level \in {Num(1), Num(2)} :
       LET M == keepLargestComponent(fg, w, h)
       IN /\ out' = [level |-> level, largest |-> M]
          /\ fg' = CleanedUp(M, w, h, level)
  /\ pc' = "cleaned"
  /\ UNCHANGED <<image, options, targetPoints, w, h, gray, thresh, darkIsForeground,
                 passes, box, centerlineX, extractRightSide, radiusByRow, maxRadius,
                 smoothed, rawPoints, result, calls, earlier, storage, lastOp>>

\* Lines 704-721 on a mask, for a cleanup level
ApplyEdgeFill ==
  /\ pc = "mask"
  /\ \E level \in {Undef, Num(1), Num(2)} :
       /\ out' = [level |-> CleanupLevel([DefaultOptions EXCEPT !.cleanup = level]),
                  before |-> fg]
       /\ fg' = EdgeFilled(fg, w, h, CleanupLevel([DefaultOptions EXCEPT !.cleanup = level]))
  /\ pc' = "edge-filled"
  /\ UNCHANGED <<image, options, targetPoints, w, h, gray, thresh, darkIsForeground,
                 passes, box, centerlineX, extractRightSide, radiusByRow, maxRadius,
                 smoothed, rawPoints, result, calls, earlier, storage, lastOp>>

\* fillFromEdges(fg, w, h) (line 712)
ApplyFillFromEdges ==
  /\ pc = "mask"
  /\ out' = fillFromEdges(fg, w, h)
  /\ pc' = "filled"
  /\ UNCHANGED <<image, options, targetPoints, w, h, gray, thresh, darkIsForeground,
                 passes, fg, box, centerlineX, extractRightSide, radiusByRow, maxRadius,
                 smoothed, rawPoints, result, calls, earlier, storage, lastOp>>

NextFill == ApplyFillFromEdges

SpecFill == InitMask /\ [][NextFill]_vars

NextCleanup == ApplyCleanup \/ ApplyEdgeFill

SpecCleanup == InitCleanup /\ [][NextCleanup]_vars

NextMask == ApplyKeepLargest \/ ApplyLabelComponents

SpecMask == InitMask /\ [][NextMask]_vars

\* ------------------------------------------------------------------------
\* The resizer on rasters of every shape
\* ------------------------------------------------------------------------
ResizeWidths ==
  {Undef, NaN, Inf, Num(0), Half(1), Num(1), Half(3), Num(2), Num(400), Half(999),
   Num(500), Num(501), Num(800), Num(1000), Num(4000), Num(1000 * 1000)}

ResizeHeights ==
  {Undef, NaN, Inf, Num(-3), Num(1), Half(3), Num(2), Num(10), Num(499), Num(500),
   Num(501), Num(800), Num(801), Num(900), Num(5000), Num(1000 * 1000)}

InitResize ==
  /\ \E wd \in ResizeWidths, ht \in ResizeHeights :
       image = Image("uniform", wd, ht, White, White)
  /\ options = DefaultOptions
  /\ pc = "entry"
  /\ FreshLocals
  /\ calls = 1
  /\ earlier = <<>>
  /\ storage = Absent
  /\ lastOp = NoOp
  /\ out = <<>>

NextResize == Enter

SpecResize == InitResize /\ [][NextResize]_vars

\* ------------------------------------------------------------------------
\* Calls on the recent finds
\* ------------------------------------------------------------------------
getRecentFinds == load(storage)

\* ids of a list, and the id after the largest one used so far
IdsOf(list) == {list[i].id : i \in DOMAIN list}
FreshId(list) == 1 + MaxTo([i \in 0..Len(list) |-> IF i = 0 THEN 2 ELSE list[i].id],
                           Len(list) + 1, 0)

\* The finds handed to addRecentFind: two ids that come back, one of them
\* also with a NaN coordinate or a single point, and an id not used so far.
AddChoices(list) ==
  {GoodFind(1), NanFind(1), ShortFind(1), GoodFind(2)}
    \cup (IF FreshId(list) <= MaxIds THEN {GoodFind(FreshId(list))} ELSE {})

RemoveChoices == {1, 2, 3}

PriorStorages ==
  {Absent, EmptyText, Garbage, NoArray, Stored(<<>>),
   Stored(<<GoodFind(2), GoodFind(1), GoodFind(2)>>),
   Stored(<<Find3(0, "pot", GoodFind(1).profile),
            Find3(1, "vase", GoodFind(1).profile),
            GoodFind(3),
            [GoodFind(2) EXCEPT !.bands = FALSE],
            JsonClone(NanFind(1)),
            GoodFind(4)>>),
   Stored([i \in 1..(MAX_RECENT + 1) |-> GoodFind(MAX_RECENT + 4 - i)])}

InitRecentWith(stores) ==
  /\ storage \in stores
  /\ lastOp = NoOp
  /\ image = Image("uniform", Num(1), Num(1), White, White)
  /\ options = DefaultOptions
  /\ pc = "recent"
  /\ out = <<>>
  /\ FreshLocals
  /\ calls = 1
  /\ earlier = <<>>

PipelineUnchanged ==
  UNCHANGED <<image, options, pc, targetPoints, w, h, gray, thresh, darkIsForeground,
              passes, fg, box, centerlineX, extractRightSide, radiusByRow, maxRadius,
              smoothed, rawPoints, result, calls, earlier, out>>

GetRecentFinds ==
  /\ pc = "recent"
  /\ lastOp' = [op |-> "get", id |-> 0, before |-> load(storage)]
  /\ UNCHANGED storage
  /\ PipelineUnchanged

AddRecentFind ==
  /\ pc = "recent"
  /\ \E spec \in AddChoices(load(storage)) :
       /\ storage' = save(addRecentFindList(load(storage), spec))
       /\ lastOp' = [op |-> "add", id |-> spec.id, before |-> load(storage)]
  /\ PipelineUnchanged

RemoveRecentFind ==
  /\ pc = "recent"
  /\ \E id \in RemoveChoices :
       /\ storage' = save(WithoutId(load(storage), id))
       /\ lastOp' = [op |-> "remove", id |-> id, before |-> load(storage)]
  /\ PipelineUnchanged

NextRecent == GetRecentFinds \/ AddRecentFind \/ RemoveRecentFind

\* any prior content of the storage
SpecRecent == InitRecentWith(PriorStorages) /\ [][NextRecent]_vars

\* empty storage at the start
SpecRecentFromEmpty == InitRecentWith({Absent}) /\ [][NextRecent]_vars

\* ------------------------------------------------------------------------
\* extractOuterContour on every mask of a three-row strip
\* ------------------------------------------------------------------------
\* fg = extractOuterContour(fg, w, h) (line 763)
ApplyContour ==
  /\ pc = "mask"
  /\ out' = extractOuterContour(fg, w, h)
  /\ pc' = "contoured"
  /\ UNCHANGED <<image, options, targetPoints, w, h, gray, thresh, darkIsForeground,
                 passes, fg, box, centerlineX, extractRightSide, radiusByRow, maxRadius,
                 smoothed, rawPoints, result, calls, earlier, storage, lastOp>>

NextContour == ApplyContour

SpecContour == InitMask /\ [][NextContour]_vars

\* ------------------------------------------------------------------------
\* The two morphological operators on every mask of a three-row strip
\* ------------------------------------------------------------------------
\* morphClose(fg, w, h) (lines 450-452)
ApplyMorphClose ==
  /\ pc = "mask"
  /\ out' = morphClose(fg, w, h)
  /\ pc' = "closed"
  /\ UNCHANGED <<image, options, targetPoints, w, h, gray, thresh, darkIsForeground,
                 passes, fg, box, centerlineX, extractRightSide, radiusByRow, maxRadius,
                 smoothed, rawPoints, result, calls, earlier, storage, lastOp>>

\* morphOpen(fg, w, h) (lines 455-457)
ApplyMorphOpen ==
  /\ pc = "mask"
  /\ out' = morphOpen(fg, w, h)
  /\ pc' = "opened"
  /\ UNCHANGED <<image, options, targetPoints, w, h, gray, thresh, darkIsForeground,
                 passes, fg, box, centerlineX, extractRightSide, radiusByRow, maxRadius,
                 smoothed, rawPoints, result, calls, earlier, storage, lastOp>>

NextMorph == ApplyMorphClose \/ ApplyMorphOpen

SpecMorph == InitMask /\ [][NextMorph]_vars

\* ------------------------------------------------------------------------
\* The flood-fill loop of fillFromEdges, one iteration at a time
\* ------------------------------------------------------------------------
FloodLocals == <<image, options, targetPoints, w, h, gray, thresh, darkIsForeground,
                 passes, fg, box, centerlineX, extractRightSide, radiusByRow, maxRadius,
                 smoothed, rawPoints, result, calls, earlier, storage, lastOp>>

\* Lines 658-673: the seeds of the top row and of the two side columns;
\* marked records the calls of visited.add in their order.
SeedQueue ==
  /\ pc = "mask"
  /\ out' = [queue |-> TopSeeds(fg, w, 0) \o SideSeeds(fg, w, h, 0),
             head |-> 1, visited |-> {}, marked |-> <<>>, returned |-> <<>>]
  /\ pc' = "flooding"
  /\ UNCHANGED FloodLocals

\* Lines 676-694: one iteration of while (queue.length > 0)
FloodIteration ==
  /\ pc = "flooding"
  /\ out.head <= Len(out.queue)
  /\ LET st == FloodStep(fg, w, h,
                         [queue |-> out.queue, head |-> out.head, visited |-> out.visited])
     IN out' = [out EXCEPT !.queue = st.queue, !.head = st.head, !.visited = st.visited,
                           !.marked = IF st.visited = out.visited THEN out.marked
                                      ELSE Append(out.marked, out.queue[out.head])]
  /\ pc' = "flooding"
  /\ UNCHANGED FloodLocals

\* Line 699: the loop is left with the queue empty
FloodReturn ==
  /\ pc = "flooding"
  /\ out.head > Len(out.queue)
  /\ out' = [out EXCEPT !.returned = [i \in 0..(w * h - 1) |-> i \notin out.visited]]
  /\ pc' = "flooded"
  /\ UNCHANGED FloodLocals

NextFlood == SeedQueue \/ FloodIteration \/ FloodReturn

SpecFlood == InitCleanup /\ [][NextFlood]_vars

\* The call runs to completion on its own: nothing else is scheduled
\* between two statements of the synchronous function.
SpecFloodFair == SpecFlood /\ WF_vars(NextFlood)

\* ------------------------------------------------------------------------
\* The measuring stages on masks of twelve rows
\* ------------------------------------------------------------------------
\* Five-pixel rows; the mask is one row, five equal rows, five equal rows, one row
AxisRows ==
  {<<FALSE, FALSE, FALSE, FALSE, FALSE>>,
   <<FALSE, FALSE, TRUE, FALSE, FALSE>>,
   <<TRUE, TRUE, TRUE, FALSE, FALSE>>,
   <<FALSE, FALSE, TRUE, TRUE, TRUE>>,
   <<TRUE, FALSE, FALSE, FALSE, TRUE>>,
   <<FALSE, TRUE, TRUE, TRUE, TRUE>>,
   <<FALSE, FALSE, FALSE, FALSE, TRUE>>}

AxisTargets == {Undef, Half(17), NaN}

InitAxis ==
  /\ w = 5
  /\ h = 12
  /\ \E rows \in [0..3 -> AxisRows] :
       fg = [i \in 0..59 |->
               LET y == i \div 5
                   k == IF y = 0 THEN 0 ELSE IF y <= 5 THEN 1 ELSE IF y <= 10 THEN 2 ELSE 3
               IN rows[k][(i % 5) + 1]]
  /\ image = [kind |-> "mask", mask |-> fg]
  /\ \E t \in AxisTargets : options = [DefaultOptions EXCEPT !.targetPoints = t]
  /\ pc = "contour"
  /\ targetPoints = MathMax(Num(8), MathMin(Num(24),
                       Coalesce(options.targetPoints, Num(DEFAULT_TARGET_POINTS))))
  /\ gray = [num |-> <<>>, den |-> 1]
  /\ thresh = Undef
  /\ darkIsForeground = TRUE
  /\ passes = <<>>
  /\ box = [yMin |-> 0, yMax |-> 0, xMin |-> 0, xMax |-> 0]
  /\ centerlineX = 0
  /\ extractRightSide = TRUE
  /\ radiusByRow = <<>>
  /\ maxRadius = InitialMaxRadius(0)
  /\ smoothed = <<>>
  /\ rawPoints = <<>>
  /\ result = NoResult
  /\ calls = 1
  /\ earlier = <<>>
  /\ storage = Absent
  /\ lastOp = NoOp
  /\ out = <<>>

NextAxis ==
  \/ Contour
  \/ BoundingBox
  \/ Axis
  \/ Radius
  \/ Smooth
  \/ NormalizeRows
  \/ Resample

SpecAxis == InitAxis /\ [][NextAxis]_vars

\* ------------------------------------------------------------------------
\* Properties
\* ------------------------------------------------------------------------
NonEmpty == pc = "done" /\ result.kind = "returned" /\ result.profile # <<>>

InUnit(q) == q.d > 0 /\ 0 <= q.n /\ q.n <= q.d

SortedByY(profile) ==
  \A i \in 1..(Len(profile) - 1) : RatLeq(profile[i].y, profile[i + 1].y)

NonIncreasingX(profile) ==
  \A i \in 1..(Len(profile) - 1) : RatLeq(profile[i + 1].x, profile[i].x)

\* the requested targetPoints (18 when omitted) clamped to [8, 24], doubled
ClampedTarget2 ==
  LET r == IF options.targetPoints.k = "undef" THEN Num(DEFAULT_TARGET_POINTS)
           ELSE options.targetPoints
  IN IF r.k # "num" THEN -1
     ELSE IF r.v2 < 16 THEN 16 ELSE IF r.v2 > 48 THEN 48 ELSE r.v2

BoxRows == box.yMax - box.yMin + 1

\* C1: every non-empty profile is sorted non-decreasing by y, starts at y = 0,
\* ends at y = 1, and has every x and every y in [0, 1].
C1_ProfileInvariant ==
  NonEmpty =>
    /\ SortedByY(result.profile)
    /\ result.profile[1].y = Rat(0, 1)
    /\ result.profile[Len(result.profile)].y = Rat(1, 1)
    /\ \A i \in 1..Len(result.profile) :
         InUnit(result.profile[i].x) /\ InUnit(result.profile[i].y)

\* C2 as stated: the length of a non-empty profile equals the requested
\* targetPoints clamped to [8, 24].
C2_LengthIsClampedTarget ==
  NonEmpty => 2 * Len(result.profile) = ClampedTarget2

\* C2: the length of a non-empty profile equals the requested targetPoints
\* clamped to [8, 24] and rounded up to a whole number, however many rows the
\* bounding box has.
C2_LengthIsCeilOfClampedTarget ==
  NonEmpty => Len(result.profile) = (ClampedTarget2 + 1) \div 2

\* A non-empty profile with more points than the bounding box has rows.
C2_Witness ==
  /\ NonEmpty
  /\ BoxRows < Len(result.profile)
  /\ Len(result.profile) = (ClampedTarget2 + 1) \div 2

\* C3: every call completes without throwing and returns an empty or a full
\* profile with no decoration bands.
C3_NeverThrows ==
  pc = "done" =>
    /\ result.kind = "returned"
    /\ result.decorationBands = <<>>
    /\ result.profile # <<>> => 2 * Len(result.profile) >= ClampedTarget2

\* C4: an image whose pixels all have the same gray level gives, with default
\* options, the empty result.
C4_UniformGivesEmpty ==
  (/\ pc = "done"
   /\ image \in UniformScenes
   /\ image.bgc.r = image.bgc.g /\ image.bgc.g = image.bgc.b
   /\ options = DefaultOptions)
    => result = EmptyResult

\* C5: on a fully black image in auto-polarity mode every binarization has
\* foreground fraction 0 or 100%, at most three binarizations are made, and
\* the result is the empty profile.
C5_BlackImageEmpty ==
  (/\ pc = "done"
   /\ image \in UniformScenes
   /\ image.bgc = Black
   /\ options.invert = "undefined")
    => /\ \A k \in 1..Len(passes) : passes[k].count \in {0, w * h}
       /\ Len(passes) <= 3
       /\ result = EmptyResult

InByteRange(x) == x.k = "num" /\ 0 <= x.v2 /\ x.v2 <= 510

\* C9: every threshold passed to binarize lies in [0, 255] and the bias
\* applied lies in [-50, 50], whatever thresholdBias is.
C9_ThresholdsInRange ==
  passes # <<>> =>
    /\ \A k \in 1..Len(passes) : InByteRange(passes[k].threshold)
    /\ Bias(options).k = "num"
    /\ -100 <= Bias(options).v2 /\ Bias(options).v2 <= 100

RadiusNonDecreasing ==
  \A i \in 0..(Size(radiusByRow) - 2) : radiusByRow[i] <= radiusByRow[i + 1]

BlackTriangleOnWhite ==
  /\ image.kind = "triangle"
  /\ image.fgc = Black
  /\ image.bgc = White
  /\ options = DefaultOptions

\* C10: a black triangle on white gives, with default options, 18 points
\* whose x does not increase with y; and whenever the per-row radius does not
\* decrease from the top row to the bottom row, x does not increase with y.
C10_MonotoneProfile ==
  /\ (pc = "done" /\ BlackTriangleOnWhite) =>
       /\ NonEmpty
       /\ Len(result.profile) = DEFAULT_TARGET_POINTS
       /\ NonIncreasingX(result.profile)
  /\ (NonEmpty /\ RadiusNonDecreasing) => NonIncreasingX(result.profile)

\* C6 as stated: on a histogram with two populated peaks a < b the returned
\* threshold t satisfies a < t < b.
C6_StrictlyBetween ==
  pc = "otsu-done" => (image.a < thresh.v2 \div 2 /\ thresh.v2 \div 2 < image.b)

\* C6: on a histogram with two populated peaks a < b the returned threshold
\* is a itself, so a <= t < b.
C6_LowerPeak ==
  pc = "otsu-done" => thresh = Num(image.a)

\* Two peaks with intensities strictly between them, and the threshold a.
C6_Witness ==
  /\ pc = "otsu-done"
  /\ image.a + 1 < image.b
  /\ image.na # image.nb
  /\ thresh = Num(image.a)

\* i and j are horizontal or vertical neighbours in a raster of the given width
Adjacent4(i, j, width) ==
  \/ (i \div width = j \div width /\ (i - j = 1 \/ j - i = 1))
  \/ i - j = width
  \/ j - i = width

RECURSIVE Grow(_, _, _)
\* the pixels of on reachable from S through 4-neighbours
Grow(S, on, width) ==
  LET T == S \cup {j \in on : \E i \in S : Adjacent4(i, j, width)}
  IN IF T = S THEN S ELSE Grow(T, on, width)

\* the 4-connected blobs of a mask
Blobs(mask, width) ==
  LET on == {i \in DOMAIN mask : mask[i]}
  IN {Grow({i}, on, width) : i \in on}

TwoUnequalBlobs(mask, width) ==
  /\ Cardinality(Blobs(mask, width)) = 2
  /\ \A A \in Blobs(mask, width), B \in Blobs(mask, width) :
       A # B => Cardinality(A) # Cardinality(B)

LargerBlob(mask, width) ==
  CHOOSE A \in Blobs(mask, width) :
    \A B \in Blobs(mask, width) : Cardinality(B) <= Cardinality(A)

\* C7: of exactly two 4-connected blobs of different sizes, the mask returned
\* by keepLargestComponent has exactly the pixels of the larger one.
C7_KeepsLargerBlob ==
  (pc = "kept" /\ TwoUnequalBlobs(image.mask, w))
    => {i \in DOMAIN fg : fg[i]} = LargerBlob(image.mask, w)

\* Two blobs, the larger one met second by the scan, and kept.
C7_Witness ==
  /\ pc = "kept"
  /\ TwoUnequalBlobs(image.mask, w)
  /\ \E i \in DOMAIN fg : image.mask[i] /\ ~fg[i]
       /\ \A j \in DOMAIN fg : fg[j] => i < j
  /\ {i \in DOMAIN fg : fg[i]} = LargerBlob(image.mask, w)

\* C8: any two calls on the same raster and options returned the same result.
C8_Idempotent ==
  \A i \in DOMAIN earlier, j \in DOMAIN earlier :
    (earlier[i].image = earlier[j].image /\ earlier[i].options = earlier[j].options)
      => earlier[i].result = earlier[j].result

\* A third call repeating the first after a different one, all with profiles.
C8_Witness ==
  /\ Len(earlier) = 3
  /\ earlier[1].image = earlier[3].image
  /\ earlier[1].options = earlier[3].options
  /\ earlier[2].image # earlier[1].image
  /\ earlier[2].result.profile # <<>>
  /\ earlier[3].result.profile # <<>>
  /\ earlier[3].result = earlier[1].result

\* C11: for finite width and height >= 1 the processing dimensions satisfy
\* max(w, h) <= 500 and w * h <= 400000.
C11_DimensionsClamped ==
  pc = "draw" => (Max(w, h) <= MAX_WIDTH /\ w * h <= MAX_PIXELS)

\* C12: the resizer returns the empty result only for a width or height that
\* is no number, not finite or below 1; otherwise the dimensions are whole
\* numbers >= 1 and the call goes on to the drawing stage.
C12_EmptyOnlyForBadDimensions ==
  /\ (pc = "done" /\ Len(earlier) = 1 /\ gray.num = <<>> /\ image.hasContext)
       => (BadDimension(image.width) \/ BadDimension(image.height))
  /\ pc = "draw" => (w >= 1 /\ h >= 1)

IsPrefix(a, b) == Len(a) <= Len(b) /\ a = SubSeq(b, 1, Len(a))

DistinctIds(list) == \A i \in DOMAIN list, j \in DOMAIN list : list[i].id = list[j].id => i = j

\* C13: after addRecentFind(spec) the list returned by getRecentFinds starts
\* with an entry of id spec.id, holds exactly one entry of that id, and the
\* entries of other ids stored before are in their former order.
C13_AddedFindIsFirst ==
  lastOp.op = "add" =>
    /\ getRecentFinds # <<>>
    /\ getRecentFinds[1].id = lastOp.id
    /\ Cardinality({i \in DOMAIN getRecentFinds : getRecentFinds[i].id = lastOp.id}) = 1
    /\ IsPrefix(WithoutId(getRecentFinds, lastOp.id), WithoutId(lastOp.before, lastOp.id))

\* C14: from empty storage the list has at most 20 entries of pairwise
\* distinct ids, and removeRecentFind(id) leaves exactly the entries of the
\* other ids, in their order.
C14_BoundedDistinctAndRemoval ==
  /\ Len(getRecentFinds) <= MAX_RECENT
  /\ DistinctIds(getRecentFinds)
  /\ lastOp.op = "remove" => getRecentFinds = WithoutId(lastOp.before, lastOp.id)

\* A removal from a full list that more than 20 ids have gone through.
C14_Witness ==
  /\ lastOp.op = "remove"
  /\ Len(lastOp.before) = MAX_RECENT
  /\ lastOp.id \in IdsOf(lastOp.before)
  /\ lastOp.before[1].id > MAX_RECENT + 2
  /\ Len(getRecentFinds) = MAX_RECENT - 1

\* C15: labelComponents gives background pixels label 0 and foreground pixels
\* a positive label, the same label to two foreground pixels exactly when a
\* path of 4-adjacent foreground pixels joins them, and count is the number
\* of 4-connected components.
C15_LabelsAreComponents ==
  pc = "labelled" =>
    LET on == {i \in DOMAIN fg : fg[i]}
    IN /\ \A i \in DOMAIN fg : IF fg[i] THEN out.labels[i] > 0 ELSE out.labels[i] = 0
       /\ \A i \in on, j \in on :
            (out.labels[i] = out.labels[j]) <=> (j \in Grow({i}, on, w))
       /\ out.count = Cardinality(Blobs(fg, w))

\* A U-shaped blob, whose two arms the scan meets apart, next to a second blob.
C15_Witness ==
  /\ pc = "labelled"
  /\ fg[0] /\ ~fg[1] /\ fg[2] /\ fg[w] /\ fg[w + 1] /\ fg[w + 2]
  /\ out.labels[0] = out.labels[2]
  /\ out.count = 2

PassMask(k) == binarize(gray, passes[k].threshold, passes[k].dark)
PassDegenerate(k) == Degenerate(passes[k].count, w * h)
\* the mask and polarity handed on are those of pass k
HandedOn(k) ==
  /\ darkIsForeground = passes[k].dark
  /\ pc = "largest" => fg = PassMask(k)
BorderIsDark == detectBackgroundColor(gray, w, h).isDark
\* the biased threshold moved by 30 towards the background, kept in [0, 255]
ShiftedThreshold ==
  IF thresh.k # "num" THEN thresh
  ELSE IF BorderIsDark THEN Half(Max(0, thresh.v2 - 60))
  ELSE Half(Min(510, thresh.v2 + 60))

\* C16: with invert unset at most three binarizations are made: the
\* border-implied polarity at the biased threshold; the opposite polarity
\* exactly when the first is below 12% or above 88%; and, exactly when the
\* mask is then still degenerate, the threshold moved by 30 with the
\* background-implied polarity, adopted exactly when within [12%, 88%].
\* With invert set there is the one binarization of the forced polarity.
C16_PassOrder ==
  passes # <<>> =>
    /\ passes[1].threshold = thresh
    /\ \A k \in 1..Len(passes) : passes[k].count = FgCount(PassMask(k))
    /\ IF options.invert # "undefined"
         THEN Len(passes) = 1 /\ passes[1].dark = (options.invert = "true") /\ HandedOn(1)
         ELSE /\ passes[1].dark = ~BorderIsDark
              /\ IF ~PassDegenerate(1) THEN Len(passes) = 1 /\ HandedOn(1)
                 ELSE /\ Len(passes) >= 2
                      /\ passes[2].threshold = thresh
                      /\ passes[2].dark = BorderIsDark
                      /\ IF ~PassDegenerate(2) THEN Len(passes) = 2 /\ HandedOn(2)
                         ELSE /\ Len(passes) = 3
                              /\ passes[3].threshold = ShiftedThreshold
                              /\ passes[3].dark = ~BorderIsDark
                              /\ IF PassDegenerate(3) THEN HandedOn(2) ELSE HandedOn(3)

\* Three binarizations, the third one within [12%, 88%] and handed on.
C16_Witness ==
  /\ pc = "largest"
  /\ options.invert = "undefined"
  /\ Len(passes) = 3
  /\ ~PassDegenerate(3)
  /\ fg = PassMask(3)
  /\ fg # PassMask(2)

\* C17: with M the largest component of the binarized mask, cleanup level 1
\* gives keepLargest(close(M)) and level 2 gives keepLargest(close(open(M))).
C17_CleanupLevels ==
  pc = "cleaned" =>
    /\ out.level = Num(1) =>
         fg = keepLargestComponent(morphClose(out.largest, w, h), w, h)
    /\ out.level = Num(2) =>
         fg = keepLargestComponent(morphClose(morphOpen(out.largest, w, h), w, h), w, h)

\* the pixels of the top row, bottom row, left column and right column
BorderPixels == {i \in DOMAIN gray.num :
                   i \div w = 0 \/ i \div w = h - 1 \/ i % w = 0 \/ i % w = w - 1}

RECURSIVE SumOver(_, _)
SumOver(f, S) == IF S = {} THEN 0
                 ELSE LET e == CHOOSE e \in S : TRUE IN f[e] + SumOver(f, S \ {e})

\* the mean of the border pixels, each counted once, is below 128
BorderMeanDark == SumOver(gray.num, BorderPixels) < 128 * gray.den * Cardinality(BorderPixels)

\* C18: the background is classified dark exactly when the mean of the border
\* pixels, each counted once, is below 128, and with invert unset the first
\* polarity is light foreground exactly when the background is classified dark.
C18_BorderMean ==
  passes # <<>> =>
    /\ detectBackgroundColor(gray, w, h).isDark <=> BorderMeanDark
    /\ options.invert = "undefined" =>
         (passes[1].dark <=> ~detectBackgroundColor(gray, w, h).isDark)

\* C19: whatever the cleanup level and the mask's own foreground fraction,
\* the flood-filled mask reduced to its largest component replaces the mask
\* exactly when the filled mask's fraction is within [12%, 88%]; otherwise
\* the mask is left as it is.
C19_EdgeFillAlwaysTried ==
  pc = "edge-filled" =>
    LET filled == fillFromEdges(out.before, w, h)
    IN IF Degenerate(FgCount(filled), w * h)
         THEN fg = out.before
         ELSE fg = keepLargestComponent(filled, w, h)

\* the non-foreground pixels joined to a non-foreground pixel of the top row,
\* left column or right column through non-foreground pixels
ReachedFromEdges(mask, width) ==
  LET off == {i \in DOMAIN mask : ~mask[i]}
      seeds == {i \in off : i \div width = 0 \/ i % width = 0 \/ i % width = width - 1}
  IN Grow(seeds, off, width)

\* C20: fillFromEdges is false exactly on the non-foreground pixels joined,
\* through non-foreground pixels only, to a non-foreground pixel of the top
\* row, left column or right column; foreground pixels and regions reached
\* only through the bottom row or enclosed by foreground are true.
C20_FillFromEdges ==
  pc = "filled" =>
    /\ \A i \in DOMAIN fg : out[i] <=> i \notin ReachedFromEdges(fg, w)
    /\ \A i \in DOMAIN fg : fg[i] => out[i]

\* A background pixel of the bottom row enclosed by foreground stays true.
C20_Witness ==
  /\ pc = "filled"
  /\ \E i \in DOMAIN fg :
       /\ i \div w = h - 1
       /\ ~fg[i]
       /\ out[i]
  /\ \E j \in DOMAIN fg : ~out[j]

\* the columns of row y where the mask is foreground
RowOf(mask, width, y) == {x \in 0..(width - 1) : mask[y * width + x]}
Leftmost(row) == CHOOSE a \in row : \A b \in row : a <= b
Rightmost(row) == CHOOSE a \in row : \A b \in row : a >= b

\* C21: after extractOuterContour each row's foreground is the interval from
\* the leftmost to the rightmost foreground pixel of the same input row (empty
\* when the input row has none); the output contains the input, and
\* extractOuterContour applied to the output gives the output again.
C21_RowSpans ==
  pc = "contoured" =>
    /\ \A y \in 0..(h - 1) :
         LET row == RowOf(fg, w, y)
         IN RowOf(out, w, y) = IF row = {} THEN {}
                               ELSE Leftmost(row)..Rightmost(row)
    /\ \A i \in DOMAIN fg : fg[i] => out[i]
    /\ extractOuterContour(out, w, h) = out

\* A row with a gap between two foreground pixels, and an empty row.
C21_Witness ==
  /\ pc = "contoured"
  /\ \E i \in DOMAIN fg : ~fg[i] /\ out[i]
  /\ \E y \in 0..(h - 1) : RowOf(out, w, y) = {}

\* the x-coordinates of the foreground pixels of rows yMin..yMax, row by row
XPositions ==
  LET scan == [k \in 1..(w * h) |-> k - 1]
      inside == SelectSeq(scan, LAMBDA i : fg[i] /\ i \div w >= box.yMin
                                                /\ i \div w <= box.yMax)
  IN [k \in 1..Len(inside) |-> inside[k] % w]

\* the greatest element of a set of naturals, 0 for the empty set
Greatest(S) == IF S = {} THEN 0 ELSE CHOOSE d \in S : \A e \in S : e <= d

\* C22: the centerline is the element at index floor(n/2) of the sorted
\* x-coordinates of the measured mask's foreground pixels inside the vertical
\* bounding box, so a column of some foreground pixel within xMin..xMax; the
\* right side is measured exactly when at least as many foreground pixels lie
\* right of the centerline as left of it; each row's radius is the largest
\* distance from the centerline of the row's foreground pixels on that side
\* (0 if none).
C22_AxisAndRadii ==
  radiusByRow # <<>> =>
    LET xs == XPositions
        n == Len(xs)
        left == Cardinality({k \in 1..n : xs[k] < centerlineX})
        right == Cardinality({k \in 1..n : xs[k] > centerlineX})
    IN /\ n > 0
       /\ centerlineX = SortBuf(xs)[(n \div 2) + 1]
       /\ \E k \in 1..n : xs[k] = centerlineX
       /\ box.xMin <= centerlineX /\ centerlineX <= box.xMax
       /\ extractRightSide <=> right >= left
       /\ DOMAIN radiusByRow = 0..(box.yMax - box.yMin)
       /\ \A r \in DOMAIN radiusByRow :
            LET row == RowOf(fg, w, box.yMin + r)
            IN radiusByRow[r] =
                 IF extractRightSide
                   THEN Greatest({x - centerlineX : x \in {c \in row : c > centerlineX}})
                   ELSE Greatest({centerlineX - x : x \in {c \in row : c < centerlineX}})

\* The left side is measured, a row has no pixel left of the centerline,
\* and another row reaches two pixels out.
C22_Witness ==
  /\ radiusByRow # <<>>
  /\ ~extractRightSide
  /\ \E r \in DOMAIN radiusByRow : radiusByRow[r] = 0
  /\ \E r \in DOMAIN radiusByRow : radiusByRow[r] >= 2

\* C23: once the dimensions are valid and a drawing context exists, the call
\* returns the empty profile exactly when the measured mask's bounding box has
\* fewer than 10 rows or the largest per-row radius is below 2, and returns a
\* non-empty profile in every other case.
C23_EmptyIffTooSmall ==
  pc = "done" /\ w >= 1 /\ h >= 1 =>
    IF BoxRows < 10 \/ maxRadius < 2
      THEN result = EmptyResult
      ELSE result.kind = "returned" /\ result.profile # <<>>

\* the radius of image row y measured from the state's centerline and side
RowRadius(y) ==
  LET row == RowOf(fg, w, y)
  IN IF extractRightSide
       THEN Greatest({x - centerlineX : x \in {c \in row : c > centerlineX}})
       ELSE Greatest({centerlineX - x : x \in {c \in row : c < centerlineX}})

\* the x a smoothed radius is normalized to
NormalizedX(v) ==
  IF v = Undefined THEN RatNaN ELSE Rat(Min(maxRadius, v), maxRadius)

LastRow == Size(rawPoints) - 1

\* the first point of the returned profile belongs to the bottom-most image
\* row of the bounding box and the last point to the top-most one
EndsOfProfile ==
  pc = "done" /\ result.kind = "returned" /\ result.profile # <<>> =>
    /\ result.profile[1].x = NormalizedX(smoothed[LastRow])
    /\ result.profile[Len(result.profile)].x = NormalizedX(smoothed[0])

\* C24 as stated: row 0 of the per-row radius sequence is the bottom row of
\* the subject and maps to y = 0, the last row is the top row and maps to
\* y = 1; profile[0].x is the normalized smoothed radius of the bottom-most
\* image row of the bounding box and profile[last].x that of the top-most.
C24_RowZeroIsBase ==
  rawPoints # <<>> =>
    /\ radiusByRow[0] = RowRadius(box.yMax)
    /\ rawPoints[0].y = Rat(0, 1)
    /\ radiusByRow[LastRow] = RowRadius(box.yMin)
    /\ rawPoints[LastRow].y = Rat(1, 1)
    /\ EndsOfProfile

\* C24: row 0 of the per-row radius sequence is the top-most image row of the
\* bounding box (yMin) and maps to y = 1, the last row is the bottom-most
\* image row (yMax) and maps to y = 0; profile[0].x is the normalized smoothed
\* radius of the bottom-most row and profile[last].x that of the top-most.
C24_RowZeroIsRim ==
  rawPoints # <<>> =>
    /\ radiusByRow[0] = RowRadius(box.yMin)
    /\ rawPoints[0].y = Rat(1, 1)
    /\ radiusByRow[LastRow] = RowRadius(box.yMax)
    /\ rawPoints[LastRow].y = Rat(0, 1)
    /\ EndsOfProfile

\* A returned profile of a subject whose top and bottom rows differ in radius.
C24_Witness ==
  /\ pc = "done"
  /\ result.kind = "returned"
  /\ result.profile # <<>>
  /\ radiusByRow[0] # radiusByRow[LastRow]
  /\ result.profile[1].x # result.profile[Len(result.profile)].x

\* the pixels of the gray image whose histogram bin is at most t
Back(t) == {i \in DOMAIN gray.num : Min(255, gray.num[i] \div gray.den) <= t}
BinSum(S) == SumOver([i \in DOMAIN gray.num |-> Min(255, gray.num[i] \div gray.den)], S)

\* both classes of the split at t are non-empty
Splits(t) == Back(t) # {} /\ Back(t) # DOMAIN gray.num

\* wB*wF*(mB-mF)^2 of the split at t, as the fraction n^2/d
ClassVariance(t) ==
  LET wB == Cardinality(Back(t))
      wF == Size(gray.num) - wB
      sumB == BinSum(Back(t))
      sumF == BinSum(DOMAIN gray.num \ Back(t))
  IN [n |-> Abs(sumB * wF - sumF * wB), d |-> wB * wF]

\* a > b for fractions n^2/d
FractionGreater(a, b) ==
  BigLess(BigMul(BigMul(Big(b.n), Big(b.n)), Big(a.d)),
          BigMul(BigMul(Big(a.n), Big(a.n)), Big(b.d)))

\* C25: otsuThreshold returns the lowest t of 0..255 that maximizes the
\* between-class variance over the t splitting the pixels into two non-empty
\* classes, and 0 when no t does.
C25_LowestMaximizer ==
  pc = "otsu-done" =>
    LET best == thresh.v2 \div 2
        splits == {t \in 0..255 : Splits(t)}
    IN /\ thresh.k = "num"
       /\ IF splits = {} THEN best = 0
          ELSE /\ best \in splits
               /\ \A t \in splits : ~FractionGreater(ClassVariance(t), ClassVariance(best))
               /\ \A t \in splits :
                    t < best => FractionGreater(ClassVariance(best), ClassVariance(t))

\* the positive label values present in a label map
LabelValues(labels) == {labels[i] : i \in DOMAIN labels} \ {0}

\* the foreground pixels with no foreground pixel to their left or above:
\* the pixels at which the scan hands out a new provisional label
ScanStarts(mask, width) ==
  {i \in DOMAIN mask :
     /\ mask[i]
     /\ ~(i % width > 0 /\ mask[i - 1])
     /\ ~(i \div width > 0 /\ mask[i - width])}

\* the provisional label handed out at or before pixel i, the latest one
StartRank(mask, width, i) == Cardinality({j \in ScanStarts(mask, width) : j <= i})

\* the first pixel of a blob in scan order
FirstPixel(A) == CHOOSE i \in A : \A j \in A : i <= j

\* C26 (as stated): after labelComponents has resolved every pixel to its
\* root, the positive label values present are contiguous: with k components
\* they are exactly 1..k.
C26_LabelsContiguous ==
  pc = "labelled" => LabelValues(out.labels) = 1..out.count

\* C26 (amended): every component carries the provisional label its first
\* pixel in scan order received, so the k label values are distinct numbers
\* among 1..(number of provisional labels) and may leave gaps.
C26_LabelsAreFirstProvisional ==
  pc = "labelled" =>
    /\ \A A \in Blobs(fg, w) : \A i \in A :
         out.labels[i] = StartRank(fg, w, FirstPixel(A))
    /\ Cardinality(LabelValues(out.labels)) = out.count
    /\ LabelValues(out.labels) \subseteq 1..Cardinality(ScanStarts(fg, w))

\* A U-shaped blob whose right arm took provisional label 2, then a third
\* start below: the labels present are 1 and 3.
C26_Witness ==
  /\ pc = "labelled"
  /\ out.count = 2
  /\ LabelValues(out.labels) = {1, 3}

\* the points pushed by the resampling loop in the state's call
Pushed == Selected(rawPoints, targetPoints)

\* the pushed points rise in y from exactly 0 to exactly 1
RisesFromZeroToOne(points) ==
  /\ points # <<>>
  /\ points[1].y = Rat(0, 1)
  /\ points[Len(points)].y = Rat(1, 1)
  /\ \A k \in 1..(Len(points) - 1) : RatLeq(points[k].y, points[k + 1].y)

\* C27: in the resampler the nearest-neighbour selections for
\* k = 0..targetPoints-1 are already non-decreasing in y, the first has y = 0
\* and the last has y = 1, so forcing the end points' y and the final sort
\* change neither a value nor the order: the call returns the selections as
\* they were pushed.
C27_ForcingIsNoOp ==
  pc = "done" /\ Size(rawPoints) > 0 =>
    /\ RisesFromZeroToOne(Pushed)
    /\ result = Returned(Pushed)

\* the same whenever the loop pushed at least one point
C27_NoOpWhenPushed ==
  pc = "done" /\ Size(rawPoints) > 0 /\ Pushed # <<>> =>
    /\ RisesFromZeroToOne(Pushed)
    /\ result = Returned(Pushed)

\* C28: for every mask, foreground on or next to the image border included,
\* morphClose never turns a foreground pixel into background (its output
\* contains its input) and morphOpen never turns a background pixel into
\* foreground (its output is contained in its input).
C28_CloseContainsOpenContained ==
  /\ pc = "closed" => \A i \in DOMAIN fg : fg[i] => out[i]
  /\ pc = "opened" => \A i \in DOMAIN fg : out[i] => fg[i]

\* the foreground fraction of a mask of the state's image lies in [12%, 88%]
InRange(mask) == ~Degenerate(FgCount(mask), w * h)

\* the three candidate masks of the fallback chain: both polarities at the
\* biased threshold, and the background-implied polarity at the moved one
Candidates ==
  {binarize(gray, thresh, TRUE), binarize(gray, thresh, FALSE),
   binarize(gray, ShiftedThreshold, ~BorderIsDark)}

\* C29: in auto-polarity mode, if binarizing at the biased threshold with at
\* least one of the two polarities gives a foreground fraction within
\* [12%, 88%], the mask handed to keepLargestComponent has a fraction within
\* [12%, 88%]; and whenever the mask handed on is degenerate, all three
\* candidate masks of the fallback chain were degenerate.
C29_FallbackFindsUsableMask ==
  pc = "largest" /\ options.invert = "undefined" =>
    /\ (\E dark \in BOOLEAN : InRange(binarize(gray, thresh, dark))) => InRange(fg)
    /\ ~InRange(fg) => \A mask \in Candidates : ~InRange(mask)

\* The border-implied polarity is degenerate and the opposite one is handed on.
C29_Witness ==
  /\ pc = "largest"
  /\ options.invert = "undefined"
  /\ ~InRange(binarize(gray, thresh, ~BorderIsDark))
  /\ InRange(binarize(gray, thresh, BorderIsDark))
  /\ fg = binarize(gray, thresh, BorderIsDark)
  /\ InRange(fg)

\* no pixel was marked twice and no foreground pixel was marked
MarkedOnceAndBackground ==
  pc \in {"flooding", "flooded"} =>
    /\ \A a \in 1..Len(out.marked), b \in 1..Len(out.marked) :
         out.marked[a] = out.marked[b] => a = b
    /\ \A a \in 1..Len(out.marked) : ~fg[out.marked[a]]
    /\ out.visited = {out.marked[a] : a \in 1..Len(out.marked)}

\* the function has returned, the work queue empty
FloodReturned == pc = "flooded" /\ out.head > Len(out.queue)

\* C30: for every mask the flood-fill loop of fillFromEdges terminates: each
\* pixel is marked visited at most once, only non-foreground pixels are ever
\* marked, and the work queue eventually becomes empty.
C30_FloodTerminates == []MarkedOnceAndBackground /\ <>FloodReturned

\* A run in which a pixel entered the queue more than once (as a corner seed
\* or from two neighbours) and the second entry was skipped.
C30_Witness ==
  /\ FloodReturned
  /\ Len(out.marked) >= 4
  /\ Len(out.queue) > Len(out.marked)
  /\ \E i \in DOMAIN fg : fg[i]
  /\ out.returned = fillFromEdges(fg, w, h)

====
